---- MODULE Spec2Model ----
(***************************************************************************)
(* The AoT loop ledger (.claude/aot-loop-state.md) and the command-line    *)
(* tools that read and rewrite it.  The ledger is a text file; every tool  *)
(* splits it into lines, scans or rewrites the lines, and writes the file  *)
(* back.  The model keeps the file as a sequence of lines, each line       *)
(* reduced to what the tools look at: its indentation, whether it is a     *)
(* list item ("- "), its key, the shape of what follows the colon and the  *)
(* value tokens.                                                           *)
(***************************************************************************)
EXTENDS Integers, Sequences, FiniteSets, TLC

VARIABLES
    exists,   \* the state file is present on disk
    doc,      \* the lines of the state file
    pre,      \* the lines of the state file before the last invocation
    last,     \* the last invocation: tool, arguments, reported outcome
    out,      \* what the last invocation printed, for the tools that only read
    clock,    \* number of invocations so far (datetime.now() grows with it)
    held      \* per invocation in flight: its arguments and the content it read

vars == <<exists, doc, pre, last, out, clock, held>>

\* ---------------------------------------------------------------- bounds
\* number of tool invocations in a run
MaxOps == 2
\* longest depends_on list of the dependency graphs given to validate_state
MaxDeps == 2
\* most items in a group of the checklists given to verify_checklist
MaxWidth == 2

\* -------------------------------------------------------------- alphabet
GroupNames == {"g1", "g2"}
None == "<none>"

\* ----------------------------------------------------------------- lines
\* form: "none"   key:            (nothing after the colon)
\*       "scalar" key: v
\*       "list"   key: [v1, v2]   ("[]" when val is empty)
\*       "map"    key: {}
\*       "block"  key: |
\*       "item"   - "v"           (a list entry without a key)
\*       "raw"    text without a colon (key holds the text)
Ln(ind, dash, key, form, val) ==
    [ind |-> ind, dash |-> dash, key |-> key, form |-> form, val |-> val]

Hdr(name) == Ln(0, FALSE, name, "none", <<>>)
EmptyList(name) == Ln(0, FALSE, name, "list", <<>>)
EmptyMap(name) == Ln(0, FALSE, name, "map", <<>>)
Fence == Ln(0, FALSE, "---", "raw", <<>>)

\* line.startswith(name + ':')
StartsWith(line, name) ==
    line.ind = 0 /\ ~line.dash /\ line.form \notin {"raw", "item"} /\ line.key = name

\* line and not line.startswith(' ') and ':' in line
IsTop(line) == line.ind = 0 /\ line.form \notin {"raw", "item"}

\* stripped.startswith('- id:')
IsIdLine(line) == line.dash /\ line.key = "id" /\ line.form \notin {"raw", "item"}

\* stripped.split(':', 1)[1].strip().strip('"').strip("'")
Scalar(line) == IF line.form = "scalar" /\ Len(line.val) > 0 THEN line.val[1] ELSE ""

\* lines[:k-1] + new + lines[k-1:]   (k is the 1-based insertion point)
InsertAt(lines, k, new) ==
    SubSeq(lines, 1, k - 1) \o new \o SubSeq(lines, k, Len(lines))

Min(S) == CHOOSE i \in S : \A j \in S : i <= j
Max(S) == CHOOSE i \in S : \A j \in S : j <= i

\* the elements of a set of line numbers, in file order
InOrder(S) ==
    [k \in 1..Cardinality(S) |-> CHOOSE p \in S : Cardinality({q \in S : q < p}) = k - 1]

\* index of the first line that starts with name + ':', or 0: where the line
\* loops set in_atoms, in_bindings, in_or_groups, decomp_idx, trail_idx
FindHdr(lines, name) ==
    LET S == {i \in 1..Len(lines) : StartsWith(lines[i], name)} IN
    IF S = {} THEN 0 ELSE Min(S)

\* where the line loops leave the section that starts at line h: the first
\* later top-level line that is not the header again, or Len+1 at end of file
SectionEnd(lines, h, name) ==
    LET S == {i \in (h + 1)..Len(lines) :
                IsTop(lines[i]) /\ ~StartsWith(lines[i], name)} IN
    IF S = {} THEN Len(lines) + 1 ELSE Min(S)

\* the line numbers inside the section called name
Section(lines, name) ==
    LET h == FindHdr(lines, name) IN
    IF h = 0 THEN {} ELSE (h + 1)..(SectionEnd(lines, h, name) - 1)

\* ----------------------------------------------------- parsing the atoms
\* ':' in stripped, key == k after partition(':')
HasKey(line, k) == ~line.dash /\ line.form \notin {"raw", "item"} /\ line.key = k

\* value[1:-1].split(',') with the empty entries dropped
DepsOf(line) ==
    IF line.form = "list" THEN SelectSeq(line.val, LAMBDA d : d # "") ELSE <<>>

\* the atom that the loop builds from the '- id:' line p: the lines up to the
\* next '- id:' line (or the end of the section) set its fields, a later line
\* for the same key replacing an earlier one; description, status and
\* or_group are read by parse_atoms only (full)
AtomAt(lines, span, p, full) ==
    LET later == {q \in span : q > p /\ IsIdLine(lines[q])}
        block == {i \in span : i > p /\ (later = {} \/ i < Min(later))}
        dep == {i \in block : HasKey(lines[i], "depends_on")}
        Field(key) ==
            LET F == {i \in block : HasKey(lines[i], key)} IN
            IF full /\ F # {} THEN Scalar(lines[Max(F)]) ELSE None
    IN [id |-> Scalar(lines[p]),
        depends_on |-> IF dep = {} THEN <<>> ELSE DepsOf(lines[Max(dep)]),
        description |-> Field("description"),
        status |-> Field("status"),
        or_group |-> Field("or_group")]

\* the loop shared by parse_atoms and parse_atoms_basic: one atom per '- id:'
\* line of the atoms section, in file order
ParseAtomsLoop(lines, full) ==
    LET span == Section(lines, "atoms")
        ids == InOrder({p \in span : IsIdLine(lines[p])})
    IN [k \in 1..Len(ids) |-> AtomAt(lines, span, ids[k], full)]

parse_atoms(lines) == ParseAtomsLoop(lines, TRUE)

parse_atoms_basic(lines) == ParseAtomsLoop(lines, FALSE)

\* every '- id:' line of the whole file, wherever it stands
parse_existing_ids(lines) ==
    {Scalar(lines[i]) : i \in {j \in 1..Len(lines) : IsIdLine(lines[j])}}

\* the insertion point of add_atom and add_child_atoms: the first top-level
\* line after 'atoms:', or the end of the file
AtomsSectionEnd(lines) ==
    LET h == FindHdr(lines, "atoms") IN
    IF h = 0 THEN Len(lines) + 1 ELSE SectionEnd(lines, h, "atoms")

\* --------------------------------------------------------------- add_atom
AtomLines(atom_id, description, depends_on, or_group) ==
    << Ln(2, TRUE, "id", "scalar", <<atom_id>>),
       Ln(4, FALSE, "description", "scalar", <<description>>),
       Ln(4, FALSE, "status", "scalar", <<"pending">>),
       Ln(4, FALSE, "depends_on", "list", depends_on) >>
    \o (IF or_group # None
        THEN <<Ln(4, FALSE, "or_group", "scalar", <<or_group>>)>> ELSE <<>>)

\* an add_atom that also enters the atom in the choices of its OR-group
add_atom_joining(lines, atom_id, description, depends_on, or_group) ==
    LET added == InsertAt(lines, AtomsSectionEnd(lines),
                          AtomLines(atom_id, description, depends_on, or_group))
        span == Section(added, "or_groups")
    IN [i \in 1..Len(added) |->
            IF /\ i \in span /\ i - 1 \in span
               /\ added[i].ind = 4 /\ HasKey(added[i], "choices")
               /\ added[i - 1].ind = 2 /\ added[i - 1].form = "none"
               /\ added[i - 1].key = or_group
            THEN [added[i] EXCEPT !.val = @ \o <<atom_id>>]
            ELSE added[i]]

add_atom(lines, atom_id, description, depends_on, or_group) ==
    InsertAt(lines, AtomsSectionEnd(lines),
             AtomLines(atom_id, description, depends_on, or_group))

\* --------------------------------------------------------- decompose_atom
\* the first atom of the atoms section whose id is atom_id, with its id and
\* depends_on; <<>> stands for None
parse_atom_info(lines, atom_id) ==
    LET span == Section(lines, "atoms")
        hits == {p \in span : IsIdLine(lines[p]) /\ Scalar(lines[p]) = atom_id}
    IN IF hits = {} THEN <<>>
       ELSE LET a == AtomAt(lines, span, Min(hits), FALSE)
            IN <<[id |-> a.id, depends_on |-> a.depends_on]>>

\* a child written like the atom of add_atom, without its origin
ChildLines_untagged(child_id, desc, parent_depends_on, parent_id) ==
    << Ln(2, TRUE, "id", "scalar", <<child_id>>),
       Ln(4, FALSE, "description", "scalar", <<desc>>),
       Ln(4, FALSE, "status", "scalar", <<"pending">>),
       Ln(4, FALSE, "depends_on", "list", parent_depends_on) >>

\* a child that waits for its parent on top of the parent's dependencies
ChildLines_after_parent(child_id, desc, parent_depends_on, parent_id) ==
    << Ln(2, TRUE, "id", "scalar", <<child_id>>),
       Ln(4, FALSE, "description", "scalar", <<desc>>),
       Ln(4, FALSE, "status", "scalar", <<"pending">>),
       Ln(4, FALSE, "depends_on", "list", parent_depends_on \o <<parent_id>>),
       Ln(4, FALSE, "decomposed_from", "scalar", <<parent_id>>) >>

ChildLines(child_id, desc, parent_depends_on, parent_id) ==
    << Ln(2, TRUE, "id", "scalar", <<child_id>>),
       Ln(4, FALSE, "description", "scalar", <<desc>>),
       Ln(4, FALSE, "status", "scalar", <<"pending">>),
       Ln(4, FALSE, "depends_on", "list", parent_depends_on),
       Ln(4, FALSE, "decomposed_from", "scalar", <<parent_id>>) >>

\* the lines of zip(children, descriptions), in order
RECURSIVE ChildrenLines(_, _, _, _, _)
ChildrenLines(children, descriptions, k, parent_depends_on, parent_id) ==
    IF k > Len(children) \/ k > Len(descriptions) THEN <<>>
    ELSE ChildLines(children[k], descriptions[k], parent_depends_on, parent_id)
         \o ChildrenLines(children, descriptions, k + 1, parent_depends_on, parent_id)

\* a decomposition that writes the children into the parent's own block
add_child_atoms_in_parent(lines, parent_depends_on, children, descriptions, parent_id) ==
    InsertAt(lines,
             1 + Min({i \in 1..Len(lines) :
                        IsIdLine(lines[i]) /\ Scalar(lines[i]) = parent_id}),
             ChildrenLines(children, descriptions, 1, parent_depends_on, parent_id))

add_child_atoms(lines, parent_depends_on, children, descriptions, parent_id) ==
    InsertAt(lines, AtomsSectionEnd(lines),
             ChildrenLines(children, descriptions, 1, parent_depends_on, parent_id))

\* datetime.now().isoformat()
Timestamp(now) == ToString(now)

\* the shared shape of add_decomposition_record and add_trail_entry: find
\* the section header, turn 'name: []' into 'name:', insert the entry before
\* the next top-level line (or at the end); no header, no change
AppendToSection(lines, name, entry) ==
    LET h == FindHdr(lines, name) IN
    IF h = 0 THEN lines
    ELSE LET opened == IF lines[h].form = "list" /\ lines[h].val = <<>>
                       THEN [lines EXCEPT ![h] = Hdr(name)] ELSE lines
         IN InsertAt(opened, SectionEnd(opened, h, name), entry)

\* a record writer that puts the record right under the header
add_decomposition_record_on_top(lines, parent_id, children, reason, now) ==
    LET h == FindHdr(lines, "decompositions") IN
    IF h = 0 THEN lines
    ELSE InsertAt(IF lines[h].form = "list"
                  THEN [lines EXCEPT ![h] = Hdr("decompositions")] ELSE lines,
                  h + 1,
                  << Ln(2, TRUE, "parent", "scalar", <<parent_id>>),
                     Ln(4, FALSE, "children", "list", children),
                     Ln(4, FALSE, "reason", "scalar", <<reason>>),
                     Ln(4, FALSE, "timestamp", "scalar", <<Timestamp(now)>>) >>)

add_decomposition_record(lines, parent_id, children, reason, now) ==
    AppendToSection(lines, "decompositions",
        << Ln(2, TRUE, "parent", "scalar", <<parent_id>>),
           Ln(4, FALSE, "children", "list", children),
           Ln(4, FALSE, "reason", "scalar", <<reason>>),
           Ln(4, FALSE, "timestamp", "scalar", <<Timestamp(now)>>) >>)

\* ------------------------------------------------------------ update_atom
ValidStatuses == {"pending", "in_progress", "resolved"}

\* (a variant that leaves the status line of a resolved atom alone)
IsTargetStatus_unresolved(lines, i, atom_id) ==
    /\ HasKey(lines[i], "status")
    /\ Scalar(lines[i]) # "resolved"
    /\ \E j \in 1..(i - 1) :
        /\ IsIdLine(lines[j]) /\ Scalar(lines[j]) = atom_id
        /\ \A k \in (j + 1)..(i - 1) :
            ~IsIdLine(lines[k]) /\ ~HasKey(lines[k], "status")

\* in_target_atom holds at a status line: the nearest '- id:' line above
\* carries atom_id and no status line lies in between (the first status line
\* of the atom ends in_target_atom)
IsTargetStatus(lines, i, atom_id) ==
    /\ HasKey(lines[i], "status")
    /\ \E j \in 1..(i - 1) :
        /\ IsIdLine(lines[j]) /\ Scalar(lines[j]) = atom_id
        /\ \A k \in (j + 1)..(i - 1) :
            ~IsIdLine(lines[k]) /\ ~HasKey(lines[k], "status")

\* (a variant in which in_target_atom is never reset: every status line
\* below the '- id:' line of atom_id is a target)
update_atom_status_below(lines, atom_id, new_status) ==
    LET below(i) == /\ HasKey(lines[i], "status")
                    /\ \E j \in 1..(i - 1) :
                            IsIdLine(lines[j]) /\ Scalar(lines[j]) = atom_id
    IN IF new_status \notin ValidStatuses THEN <<lines, FALSE>>
       ELSE << [i \in 1..Len(lines) |->
                   IF below(i)
                   THEN Ln(lines[i].ind, FALSE, "status", "scalar", <<new_status>>)
                   ELSE lines[i]],
               \E i \in 1..Len(lines) : below(i) >>

\* <<rewritten lines, found>>
update_atom_status(lines, atom_id, new_status) ==
    IF new_status \notin ValidStatuses THEN <<lines, FALSE>>
    ELSE << [i \in 1..Len(lines) |->
                IF IsTargetStatus(lines, i, atom_id)
                THEN Ln(lines[i].ind, FALSE, "status", "scalar", <<new_status>>)
                ELSE lines[i]],
            \E i \in 1..Len(lines) : IsTargetStatus(lines, i, atom_id) >>

\* ------------------------------------------------------- switch_or_branch
\* stripped.endswith(':')
EndsWithColon(line) == line.form = "none"

\* stripped == name + ':'
IsKeyLine(line, name) == ~line.dash /\ line.form = "none" /\ line.key = name

\* in_target_group holds at line i of the or_groups section: a '  <group>:'
\* line lies above it with no other 2-space 'name:' line in between
InTargetGroup(lines, span, i, group_name) ==
    \E j \in span :
        /\ j < i /\ lines[j].ind = 2 /\ IsKeyLine(lines[j], group_name)
        /\ \A k \in (j + 1)..(i - 1) :
            lines[k].ind = 2 /\ EndsWithColon(lines[k])
                => IsKeyLine(lines[k], group_name)

\* a switch that also moves the selection it replaces into 'failed'
update_or_group_selection_failing(lines, group_name, new_selection) ==
    LET h == FindHdr(lines, "or_groups")
        span == Section(lines, "or_groups")
        Target(i, key) ==
            /\ i \in span
            /\ lines[i].ind = 4 /\ HasKey(lines[i], key)
            /\ InTargetGroup(lines, span, i, group_name)
        old == {i \in 1..Len(lines) : Target(i, "selected")}
    IN  IF h = 0 THEN lines
        ELSE IF lines[h].form = "map"
        THEN SubSeq(lines, 1, h - 1)
             \o << Hdr("or_groups"),
                   Ln(2, FALSE, group_name, "none", <<>>),
                   Ln(4, FALSE, "choices", "list", <<>>),
                   Ln(4, FALSE, "selected", "scalar", <<new_selection>>),
                   Ln(4, FALSE, "failed", "list", <<>>) >>
             \o SubSeq(lines, h + 1, Len(lines))
        ELSE [i \in 1..Len(lines) |->
                IF Target(i, "selected")
                THEN Ln(4, FALSE, "selected", "scalar", <<new_selection>>)
                ELSE IF Target(i, "failed") /\ old # {}
                THEN [lines[i] EXCEPT !.val = @ \o lines[Min(old)].val]
                ELSE lines[i]]

update_or_group_selection(lines, group_name, new_selection) ==
    LET h == FindHdr(lines, "or_groups")
        selected == Ln(4, FALSE, "selected", "scalar", <<new_selection>>)
    IN  IF h = 0 THEN lines
        ELSE IF lines[h].form = "map"
        THEN SubSeq(lines, 1, h - 1)
             \o << Hdr("or_groups"),
                   Ln(2, FALSE, group_name, "none", <<>>),
                   Ln(4, FALSE, "choices", "list", <<>>),
                   selected,
                   Ln(4, FALSE, "failed", "list", <<>>) >>
             \o SubSeq(lines, h + 1, Len(lines))
        ELSE LET span == Section(lines, "or_groups") IN
             [i \in 1..Len(lines) |->
                IF /\ i \in span
                   /\ lines[i].ind = 4 /\ HasKey(lines[i], "selected")
                   /\ InTargetGroup(lines, span, i, group_name)
                THEN selected ELSE lines[i]]

\* a trail writer that puts the entry right under the 'trail:' header
add_trail_entry_on_top(lines, group_name, new_selection, reason, now) ==
    LET h == FindHdr(lines, "trail") IN
    IF h = 0 THEN lines
    ELSE InsertAt(IF lines[h].form = "list" THEN [lines EXCEPT ![h] = Hdr("trail")]
                  ELSE lines,
                  h + 1,
                  << Ln(2, TRUE, "or_group", "scalar", <<group_name>>),
                     Ln(4, FALSE, "selected", "scalar", <<new_selection>>),
                     Ln(4, FALSE, "reason", "scalar", <<reason>>),
                     Ln(4, FALSE, "timestamp", "scalar", <<Timestamp(now)>>) >>)

add_trail_entry(lines, group_name, new_selection, reason, now) ==
    AppendToSection(lines, "trail",
        << Ln(2, TRUE, "or_group", "scalar", <<group_name>>),
           Ln(4, FALSE, "selected", "scalar", <<new_selection>>),
           Ln(4, FALSE, "reason", "scalar", <<reason>>),
           Ln(4, FALSE, "timestamp", "scalar", <<Timestamp(now)>>) >>)

\* ------------------------------------------------------------ add_binding
\* summary.strip().split('\n') is the sequence of summary lines
BindingLines(atom_id, summary, artifacts) ==
    <<Ln(2, FALSE, atom_id, "none", <<>>)>>
    \o (IF Len(summary) = 1
        THEN <<Ln(4, FALSE, "summary", "scalar", <<summary[1]>>)>>
        ELSE <<Ln(4, FALSE, "summary", "block", <<>>)>>
             \o [k \in 1..Len(summary) |-> Ln(6, FALSE, summary[k], "raw", <<>>)])
    \o (IF artifacts # <<>>
        THEN <<Ln(4, FALSE, "artifacts", "none", <<>>)>>
             \o [k \in 1..Len(artifacts) |-> Ln(6, TRUE, "", "item", <<artifacts[k]>>)]
        ELSE <<>>)

\* a binding writer that never replaces: the block goes to the end of the section
add_binding_appending(lines, atom_id, summary, artifacts) ==
    LET h == FindHdr(lines, "bindings") IN
    IF h = 0 THEN lines
    ELSE InsertAt(IF lines[h].form = "map" THEN [lines EXCEPT ![h] = Hdr("bindings")]
                  ELSE lines,
                  SectionEnd(lines, h, "bindings"),
                  BindingLines(atom_id, summary, artifacts))

\* a binding writer that keeps the latest binding only
add_binding_latest_only(lines, atom_id, summary, artifacts) ==
    LET h == FindHdr(lines, "bindings") IN
    IF h = 0 THEN lines
    ELSE SubSeq(lines, 1, h - 1) \o <<Hdr("bindings")>>
         \o BindingLines(atom_id, summary, artifacts)
         \o SubSeq(lines, SectionEnd(lines, h, "bindings"), Len(lines))

\* the scan of add_binding and the splice that follows it
add_binding(lines, atom_id, summary, artifacts) ==
    LET bindings_line_idx == FindHdr(lines, "bindings")
        span == Section(lines, "bindings")
        next_section_idx ==
            IF bindings_line_idx = 0 THEN Len(lines) + 1
            ELSE SectionEnd(lines, bindings_line_idx, "bindings")
        own == {i \in span : lines[i].ind = 2 /\ IsKeyLine(lines[i], atom_id)}
        others == {i \in span : /\ i \notin own /\ i > Min(own)
                                /\ lines[i].ind = 2 /\ EndsWithColon(lines[i])}
        existing_binding_end == IF others # {} THEN Min(others) ELSE next_section_idx
        binding_lines == BindingLines(atom_id, summary, artifacts)
    IN  IF own # {}
        THEN SubSeq(lines, 1, Max(own) - 1) \o binding_lines
             \o SubSeq(lines, existing_binding_end, Len(lines))
        ELSE IF bindings_line_idx > 0
        THEN LET opened == IF lines[bindings_line_idx].form = "map"
                           THEN [lines EXCEPT ![bindings_line_idx] = Hdr("bindings")]
                           ELSE lines
             IN InsertAt(opened, next_section_idx, binding_lines)
        ELSE lines

\* -------------------------------------------------------------- read_state
\* a bindings dict is a set of <<atom id, field, field lines>>.
\* A field starts at a 4-space 'key:' line below a 2-space 'id:' line; its
\* field lines are the text after the colon (unless empty or '|') and the
\* lines of 6 or more spaces and the '- ' items that follow, up to the next
\* field or id line; it is saved when it has a field line, and a later field
\* of the same id and key replaces an earlier one
IsBindingId(line) == line.ind = 2 /\ EndsWithColon(line)

IsBindingField(line) ==
    line.ind = 4 /\ line.form \notin {"raw", "item"} /\ ~line.dash

\* text after 'key:' as one field line, or none when empty or '|'
InlineValue(line) == IF line.form = "scalar" THEN <<Scalar(line)>> ELSE <<>>

FieldLines(lines, span, f) ==
    LET stops == {i \in span : i > f /\ (IsBindingId(lines[i]) \/ IsBindingField(lines[i]))}
        body == InOrder({i \in span :
                    /\ i > f /\ (stops = {} \/ i < Min(stops))
                    /\ (lines[i].ind >= 6 \/ lines[i].form = "item")})
    IN InlineValue(lines[f])
       \o [k \in 1..Len(body) |->
            IF lines[body[k]].form = "item" THEN lines[body[k]].val[1]
            ELSE lines[body[k]].key]

parse_bindings(lines) ==
    LET span == Section(lines, "bindings")
        Owner(f) == {i \in span : i < f /\ IsBindingId(lines[i])}
        saved == {f \in span : /\ IsBindingField(lines[f]) /\ ~IsBindingId(lines[f])
                               /\ Owner(f) # {}
                               /\ FieldLines(lines, span, f) # <<>>}
        Id(f) == lines[Max(Owner(f))].key
        latest == {f \in saved : \A g \in saved :
                    (Id(g) = Id(f) /\ lines[g].key = lines[f].key) => g <= f}
    IN {<<Id(f), lines[f].key, FieldLines(lines, span, f)>> : f \in latest}

\* bindings.keys()
BindingKeys(bindings) == {t[1] : t \in bindings}

\* a frontier that counts a dependency as satisfied only when it is resolved
get_executable_atoms_unbound(atoms, bindings) ==
    SelectSeq(atoms, LAMBDA atom :
        /\ atom.status = "pending"
        /\ \A k \in 1..Len(atom.depends_on) :
            \E j \in 1..Len(atoms) :
                atoms[j].id = atom.depends_on[k] /\ atoms[j].status = "resolved")

get_executable_atoms(atoms, bindings) ==
    LET resolved_ids ==
            BindingKeys(bindings)
            \cup {atoms[k].id : k \in {j \in 1..Len(atoms) : atoms[j].status = "resolved"}}
    IN SelectSeq(atoms, LAMBDA atom :
            /\ atom.status = "pending"
            /\ \A k \in 1..Len(atom.depends_on) : atom.depends_on[k] \in resolved_ids)

\* the atoms, bindings and executable_atoms of the snapshot read_state prints
read_state(lines) ==
    LET atoms == parse_atoms(lines)
        bindings == parse_bindings(lines)
    IN [atoms |-> atoms, bindings |-> bindings,
        executable_atoms |-> get_executable_atoms(atoms, bindings)]

\* ------------------------------------------------------------- set_status
\* line.startswith('  <key>:')
IsControlLine(line, key) == line.ind = 2 /\ HasKey(line, key)

SetStatusLine(line, status, reason) ==
    IF IsControlLine(line, "status")
        THEN Ln(2, FALSE, "status", "scalar", <<status>>)
    ELSE IF IsControlLine(line, "stop_reason")
        THEN IF reason # None THEN Ln(2, FALSE, "stop_reason", "scalar", <<reason>>)
             ELSE IF status = "completed"
                 THEN Ln(2, FALSE, "stop_reason", "scalar", <<"null">>)
             ELSE line
    ELSE line

set_loop_status(lines, status, reason) ==
    [i \in 1..Len(lines) |-> SetStatusLine(lines[i], status, reason)]

\* ---------------------------------------------------------- validate_state
\* atom_map = {a['id']: a for a in atoms}: the last atom of each id
AtomMap(atoms) ==
    [id \in {atoms[k].id : k \in 1..Len(atoms)} |->
        atoms[Max({k \in 1..Len(atoms) : atoms[k].id = id})]]

\* path.index(node_id)
IndexOf(path, node_id) == Min({k \in 1..Len(path) : path[k] = node_id})

\* dfs returns the cycle it found (<<>> for None) and the visited set, which
\* the calls share; DfsDeps is its loop over the depends_on of the node
RECURSIVE dfs(_, _, _, _), DfsDeps(_, _, _, _, _)
\* a search that returns its whole stack, not the slice from the repeated node
dfs_whole_path(atom_map, node_id, visited, path) ==
    IF \E k \in 1..Len(path) : path[k] = node_id
        THEN [cycle |-> path \o <<node_id>>, visited |-> visited]
    ELSE IF node_id \in visited THEN [cycle |-> <<>>, visited |-> visited]
    ELSE DfsDeps(atom_map,
                 IF node_id \in DOMAIN atom_map THEN atom_map[node_id].depends_on
                 ELSE <<>>,
                 1, visited \cup {node_id}, Append(path, node_id))

\* a search that asks "seen before?" ahead of "on the current path?"
dfs_visited_first(atom_map, node_id, visited, path) ==
    IF node_id \in visited THEN [cycle |-> <<>>, visited |-> visited]
    ELSE DfsDeps(atom_map,
                 IF node_id \in DOMAIN atom_map THEN atom_map[node_id].depends_on
                 ELSE <<>>,
                 1, visited \cup {node_id}, Append(path, node_id))

dfs(atom_map, node_id, visited, path) ==
    IF \E k \in 1..Len(path) : path[k] = node_id
        THEN [cycle |-> SubSeq(path, IndexOf(path, node_id), Len(path)) \o <<node_id>>,
              visited |-> visited]
    ELSE IF node_id \in visited THEN [cycle |-> <<>>, visited |-> visited]
    ELSE DfsDeps(atom_map,
                 IF node_id \in DOMAIN atom_map THEN atom_map[node_id].depends_on
                 ELSE <<>>,
                 1, visited \cup {node_id}, Append(path, node_id))

DfsDeps(atom_map, deps, k, visited, path) ==
    IF k > Len(deps) THEN [cycle |-> <<>>, visited |-> visited]
    ELSE LET r == dfs(atom_map, deps[k], visited, path) IN
         IF r.cycle # <<>> THEN r
         ELSE DfsDeps(atom_map, deps, k + 1, r.visited, path)

\* "for atom in atoms: cycle = dfs(atom['id'], visited, [])"
RECURSIVE DetectFrom(_, _, _, _)
DetectFrom(atoms, k, atom_map, visited) ==
    IF k > Len(atoms) THEN <<>>
    ELSE LET r == dfs(atom_map, atoms[k].id, visited, <<>>) IN
         IF r.cycle # <<>> THEN r.cycle
         ELSE DetectFrom(atoms, k + 1, atom_map, r.visited)

detect_cycle(atoms) == DetectFrom(atoms, 1, AtomMap(atoms), {})

\* the lines between the first two '---' of the file
Fences(lines) == {i \in 1..Len(lines) : lines[i] = Fence}

\* 'key:' in frontmatter
Mentions(lines, front, key) ==
    \E i \in front : lines[i].form \notin {"raw", "item"} /\ lines[i].key = key

\* (a variant that lets the same ID stand twice)
atom_errors_no_duplicates(atoms) ==
    (IF atoms = <<>> THEN {<<"atoms", "none", "">>} ELSE {})
    \cup (IF atoms # <<>> /\ detect_cycle(atoms) # <<>>
          THEN {<<"atoms", "cycle", "">>} ELSE {})

\* the errors the atoms give rise to: none defined, or else an ID that stands
\* twice and a circular dependency
atom_errors(atoms) ==
    LET duplicates == {atoms[k].id : k \in {j \in 1..Len(atoms) :
                            \E i \in 1..(j - 1) : atoms[i].id = atoms[j].id}}
    IN (IF atoms = <<>> THEN {<<"atoms", "none", "">>} ELSE {})
       \cup (IF duplicates # {} THEN {<<"atoms", "duplicate", "">>} ELSE {})
       \cup (IF atoms # <<>> /\ detect_cycle(atoms) # <<>>
             THEN {<<"atoms", "cycle", "">>} ELSE {})

\* errors and warnings are sets of <<kind, what, detail>>
validate_state_file(lines) ==
    LET fences == Fences(lines) IN
    IF lines = <<>> \/ lines[1] # Fence
    THEN [valid |-> FALSE, errors |-> {<<"frontmatter", "missing", "">>},
          warnings |-> {}, atom_count |-> 0, cycle |-> <<>>]
    ELSE IF Cardinality(fences) < 2
    THEN [valid |-> FALSE, errors |-> {<<"frontmatter", "unclosed", "">>},
          warnings |-> {}, atom_count |-> 0, cycle |-> <<>>]
    ELSE
    LET front == 2..(Min(fences \ {1}) - 1)
        sections == {<<"section", sec, "">> :
                        sec \in {x \in {"objective", "control", "atoms"} :
                                    ~Mentions(lines, front, x)}}
        objective == IF Mentions(lines, front, "objective")
                     THEN {<<"objective", f, "">> :
                            f \in {x \in {"goal", "base_case"} :
                                    ~Mentions(lines, front, x)}}
                     ELSE {}
        control == IF Mentions(lines, front, "control")
                   THEN {<<"control", f, "">> :
                            f \in {x \in {"status", "iteration", "stall_count"} :
                                    ~\E i \in front : IsControlLine(lines[i], x)}}
                   ELSE {}
        atoms == parse_atoms_basic(lines)
        cycle == IF atoms = <<>> THEN <<>> ELSE detect_cycle(atoms)
        all_ids == {atoms[k].id : k \in 1..Len(atoms)}
        undefined == UNION {{<<"undefined", atoms[k].id, atoms[k].depends_on[m]>> :
                                m \in {j \in 1..Len(atoms[k].depends_on) :
                                        atoms[k].depends_on[j] \notin all_ids}} :
                            k \in 1..Len(atoms)}
        errors == sections \cup objective \cup atom_errors(atoms)
    IN [valid |-> errors = {}, errors |-> errors, warnings |-> control \cup undefined,
        atom_count |-> Len(atoms), cycle |-> cycle]

\* -------------------------------------------------------- verify_checklist
\* a check dict; check.get(field, "") reads "" for a field that is not there
NoCheck == [type |-> "", value |-> "", criteria |-> "", pass_threshold |-> ""]
CheckFields == {"type", "value", "criteria", "pass_threshold"}

\* an item dict: its name and which of 'group', 'any_of', 'check' it has
NoItem(name) ==
    [item |-> name, has_group |-> FALSE, group |-> <<>>,
     has_any_of |-> FALSE, any_of |-> <<>>, has_check |-> FALSE, check |-> NoCheck]

\* line.strip().startswith('- item:')
IsItemLine(line) == line.dash /\ line.key = "item" /\ line.form \notin {"raw", "item"}

\* content_stripped == 'group:' (or 'any_of:', 'check:')
IsBareKey(line, key) == ~line.dash /\ line.form = "none" /\ line.key = key

\* the three loops of parse_checklist_items; each returns what it built and
\* the index of the line it stopped at
RECURSIVE ItemsLoop(_, _, _, _), ContentLoop(_, _, _, _), CheckLoop(_, _, _, _)
CheckLoop(lines, idx, check_indent, check) ==
    IF idx > Len(lines) \/ lines[idx].ind < check_indent THEN <<check, idx>>
    ELSE LET cs == lines[idx] IN
         CheckLoop(lines, idx + 1, check_indent,
                   IF ~cs.dash /\ cs.form \notin {"raw", "item"} /\ cs.key \in CheckFields
                   THEN [check EXCEPT ![cs.key] = Scalar(cs)] ELSE check)

ContentLoop(lines, idx, indent, item) ==
    IF idx > Len(lines) \/ lines[idx].ind <= indent THEN <<item, idx>>
    ELSE LET content == lines[idx] IN
         IF IsBareKey(content, "group")
         THEN LET sub == ItemsLoop(lines, idx + 1, content.ind + 2, <<>>) IN
              ContentLoop(lines, sub[2], indent,
                          [item EXCEPT !.has_group = TRUE, !.group = sub[1]])
         ELSE IF IsBareKey(content, "any_of")
         THEN LET sub == ItemsLoop(lines, idx + 1, content.ind + 2, <<>>) IN
              ContentLoop(lines, sub[2], indent,
                          [item EXCEPT !.has_any_of = TRUE, !.any_of = sub[1]])
         ELSE IF IsBareKey(content, "check")
         THEN LET sub == CheckLoop(lines, idx + 1, content.ind + 2, NoCheck) IN
              ContentLoop(lines, sub[2], indent,
                          [item EXCEPT !.has_check = TRUE, !.check = sub[1]])
         ELSE ContentLoop(lines, idx + 1, indent, item)

ItemsLoop(lines, idx, base_indent, items) ==
    IF idx > Len(lines) \/ lines[idx].ind < base_indent THEN <<items, idx>>
    ELSE IF IsItemLine(lines[idx])
    THEN LET sub == ContentLoop(lines, idx + 1, lines[idx].ind,
                                NoItem(Scalar(lines[idx]))) IN
         ItemsLoop(lines, sub[2], base_indent, Append(items, sub[1]))
    ELSE ItemsLoop(lines, idx + 1, base_indent, items)

parse_checklist_items(lines, start_idx, base_indent) ==
    ItemsLoop(lines, start_idx, base_indent, <<>>)

\* the legacy 'type:' and 'value:' lines below 'base_case:', up to the first
\* line of less than four spaces that has a colon
LegacyFields(lines, base_case_start) ==
    LET window == (base_case_start + 1)..Min({base_case_start + 9, Len(lines)})
        stops == {i \in window : lines[i].ind < 4 /\ lines[i].form \notin {"raw", "item"}}
        read == {i \in window : /\ stops = {} \/ i < Min(stops)
                                /\ ~lines[i].dash /\ lines[i].form \notin {"raw", "item"}
                                /\ lines[i].key \in {"type", "value"}}
        Last(key) == Max({i \in read : lines[i].key = key})
    IN [has_type |-> \E i \in read : lines[i].key = "type",
        has_value |-> \E i \in read : lines[i].key = "value",
        check |-> [NoCheck EXCEPT
                    !.type = IF \E i \in read : lines[i].key = "type"
                             THEN Scalar(lines[Last("type")]) ELSE "",
                    !.value = IF \E i \in read : lines[i].key = "value"
                              THEN Scalar(lines[Last("value")]) ELSE ""]]

\* format is "checklist", "legacy" (a dict with 'type' or 'value') or "none"
parse_base_case(lines) ==
    LET starts == {i \in 1..Len(lines) :
                    ~lines[i].dash /\ lines[i].form \notin {"raw", "item"}
                    /\ lines[i].key = "base_case"}
        base_case_start == Min(starts)
        heads == {i \in (base_case_start + 1)..Min({base_case_start + 4, Len(lines)}) :
                    lines[i].form \notin {"raw", "item"} /\ lines[i].key = "checklist"}
        legacy == LegacyFields(lines, base_case_start)
    IN  IF starts = {}
            THEN [format |-> "none", checklist |-> <<>>, has_type |-> FALSE, check |-> NoCheck]
        ELSE IF heads # {}
            THEN [format |-> "checklist",
                  checklist |-> parse_checklist_items(lines, Min(heads) + 1,
                                                      lines[Min(heads)].ind + 2)[1],
                  has_type |-> FALSE, check |-> NoCheck]
        ELSE IF legacy.has_type \/ legacy.has_value
            THEN [format |-> "legacy", checklist |-> <<>>,
                  has_type |-> legacy.has_type, check |-> legacy.check]
        ELSE [format |-> "none", checklist |-> <<>>, has_type |-> FALSE, check |-> NoCheck]

\* what the external collaborators answer, by the value of the check: the
\* shell commands 'true', 'false' and 'exit 2' exit with 0, 1 and 2, 'hang'
\* outlives the time limit and 'unlaunchable' makes subprocess.run raise; of
\* the paths only 'present.txt' is there, two files match '*.txt' and none
\* matches '*.nil'
CommandValues == {"true", "false", "exit 2", "hang", "unlaunchable"}
PathValues == {"present.txt", "absent.txt", "*.txt", "*.nil"}
ExitCode(command) ==
    CASE command = "true" -> 0
      [] command = "false" -> 1
      [] command = "exit 2" -> 2
      [] OTHER -> -1
Hangs(command) == command = "hang"
FailsToLaunch(command) == command = "unlaunchable"
MatchCount(path) ==
    CASE path = "present.txt" -> 1
      [] path = "*.txt" -> 2
      [] OTHER -> 0
PathExists(path) == MatchCount(path) > 0

\* Python's passed is True, False or None; only True is truthy
Truthy(passed) == passed = "True"
Bool(b) == IF b THEN "True" ELSE "False"

\* a result dict: 'type' is "" and 'skipped_items' is <<>> when the key is
\* not there; results holds group_results or any_of_results; calls are the
\* verification scripts that were run for the item, in order
NoResult(name) ==
    [item |-> name, passed |-> "False", skipped |-> FALSE, type |-> "",
     evidence |-> <<>>, kind |-> "none", results |-> <<>>, skipped_items |-> <<>>,
     calls |-> <<>>]

\* run_command: exit code, timed_out, and whether 'error' is set
run_command(command) ==
    IF Hangs(command)
    THEN [exit_code |-> -1, timed_out |-> TRUE, error |-> FALSE]
    ELSE IF FailsToLaunch(command)
    THEN [exit_code |-> -1, timed_out |-> FALSE, error |-> TRUE]
    ELSE [exit_code |-> ExitCode(command), timed_out |-> FALSE, error |-> FALSE]

\* (a variant without the timed_out and error branches: the exit code -1
\* is judged like any other)
verify_command_by_exit_code(command, expect_fail) ==
    LET exit_code == run_command(command).exit_code IN
    [passed |-> Bool(IF expect_fail THEN exit_code # 0 ELSE exit_code = 0),
     type |-> IF expect_fail THEN "not_command" ELSE "command",
     evidence |-> <<"exit code", ToString(exit_code)>>]

\* verify_command.py: the JSON it prints
verify_command(command, expect_fail) ==
    LET result == run_command(command) IN
    IF result.timed_out
    THEN [passed |-> "False", type |-> "command", evidence |-> <<"timed out">>]
    ELSE IF result.error
    THEN [passed |-> "False", type |-> "command", evidence |-> <<"failed to execute">>]
    ELSE LET exit_code == result.exit_code IN
         [passed |-> Bool(IF expect_fail THEN exit_code # 0 ELSE exit_code = 0),
          type |-> IF expect_fail THEN "not_command" ELSE "command",
          evidence |-> <<"exit code", ToString(exit_code)>>]

\* verify_file.py: the JSON it prints
verify_file(path, expect_missing) ==
    [passed |-> Bool(IF expect_missing THEN ~PathExists(path) ELSE PathExists(path)),
     type |-> IF expect_missing THEN "not_file" ELSE "file",
     evidence |-> <<IF PathExists(path) THEN "exists" ELSE "not found", path>>]

\* the script is run under a time limit of its own, which a command that
\* hangs reaches first
run_verify_script(script_name, args) ==
    LET flagged == Len(args) > 1 IN
    IF script_name = "verify_command.py"
    THEN IF Hangs(args[1])
         THEN [passed |-> "False", type |-> "", evidence |-> <<"Verification timed out">>]
         ELSE verify_command(args[1], flagged)
    ELSE verify_file(args[1], flagged)

\* the script and the arguments verify_check runs for the check, if any
ScriptCall(check) ==
    CASE check.type = "command" -> <<<<"verify_command.py", <<check.value>>>>>>
      [] check.type = "not_command" ->
            <<<<"verify_command.py", <<check.value, "--expect-fail">>>>>>
      [] check.type = "file" -> <<<<"verify_file.py", <<check.value>>>>>>
      [] check.type = "not_file" ->
            <<<<"verify_file.py", <<check.value, "--expect-missing">>>>>>
      [] OTHER -> <<>>

\* (a variant that runs the script a second time when the first run did not
\* pass)
verify_check_retrying(check) ==
    LET call == ScriptCall(check) IN
    IF call # <<>>
    THEN LET r == run_verify_script(call[1][1], call[1][2]) IN
         [passed |-> r.passed, skipped |-> FALSE, type |-> r.type,
          evidence |-> r.evidence,
          calls |-> IF Truthy(r.passed) THEN call ELSE call \o call]
    ELSE IF check.type = "quality"
    THEN [passed |-> "None", skipped |-> TRUE, type |-> "quality",
          evidence |-> <<"Quality check requires LLM judgment",
                         check.pass_threshold, check.criteria>>,
          calls |-> <<>>]
    ELSE [passed |-> "False", skipped |-> FALSE, type |-> "",
          evidence |-> <<"Unknown check type", check.type>>, calls |-> <<>>]

\* the fields result.update(check_result) sets
verify_check(check) ==
    LET call == ScriptCall(check) IN
    IF call # <<>>
    THEN LET r == run_verify_script(call[1][1], call[1][2]) IN
         [passed |-> r.passed, skipped |-> FALSE, type |-> r.type,
          evidence |-> r.evidence, calls |-> call]
    ELSE IF check.type = "quality"
    THEN [passed |-> "None", skipped |-> TRUE, type |-> "quality",
          evidence |-> <<"Quality check requires LLM judgment",
                         check.pass_threshold, check.criteria>>,
          calls |-> <<>>]
    ELSE [passed |-> "False", skipped |-> FALSE, type |-> "",
          evidence |-> <<"Unknown check type", check.type>>, calls |-> <<>>]

RECURSIVE Flatten(_)
Flatten(seqs) == IF seqs = <<>> THEN <<>> ELSE Head(seqs) \o Flatten(Tail(seqs))

\* names of the sub-results that are skipped
SkippedNames(sub_results) ==
    LET at == SelectSeq([k \in 1..Len(sub_results) |-> k],
                        LAMBDA k : sub_results[k].skipped)
    IN [j \in 1..Len(at) |-> sub_results[at[j]].item]

PassedCount(sub_results) ==
    Cardinality({k \in 1..Len(sub_results) : Truthy(sub_results[k].passed)})

\* (a variant in which a skipped child counts against the group)
all_passed_strict(sub_results) ==
    \A k \in 1..Len(sub_results) : Truthy(sub_results[k].passed)

\* the verdict of an AND group on the results of its children: a child counts
\* against the group when it is neither skipped nor passed
all_passed(sub_results) ==
    \A k \in 1..Len(sub_results) :
        sub_results[k].skipped \/ Truthy(sub_results[k].passed)

\* (a variant in which a skipped child counts for the group)
any_passed_lenient(sub_results) ==
    \E k \in 1..Len(sub_results) :
        sub_results[k].skipped \/ Truthy(sub_results[k].passed)

\* the verdict of an OR group: some child is not skipped and passed
any_passed(sub_results) ==
    \E k \in 1..Len(sub_results) :
        ~sub_results[k].skipped /\ Truthy(sub_results[k].passed)

RECURSIVE verify_item(_)
\* (a variant that stops at the child that settles the group: the first
\* failure of an AND group, the first pass of an OR group)
verify_item_short_circuit(item) ==
    LET result == NoResult(IF item.item = "" THEN "Unknown" ELSE item.item)
        UpTo(all, settles) ==
            SubSeq(all, 1, IF settles = {} THEN Len(all) ELSE Min(settles))
    IN
    IF item.has_group
    THEN LET all == [k \in 1..Len(item.group) |-> verify_item(item.group[k])]
             sub_results ==
                UpTo(all, {k \in 1..Len(all) :
                            ~all[k].skipped /\ ~Truthy(all[k].passed)})
         IN [result EXCEPT !.passed = Bool(all_passed(sub_results)), !.kind = "group",
                           !.results = sub_results,
                           !.evidence = <<"AND group", ToString(PassedCount(sub_results)),
                                          ToString(Len(sub_results))>>,
                           !.skipped_items = SkippedNames(sub_results),
                           !.calls = Flatten([k \in 1..Len(sub_results) |->
                                                sub_results[k].calls])]
    ELSE IF item.has_any_of
    THEN LET all == [k \in 1..Len(item.any_of) |-> verify_item(item.any_of[k])]
             sub_results ==
                UpTo(all, {k \in 1..Len(all) :
                            ~all[k].skipped /\ Truthy(all[k].passed)})
         IN [result EXCEPT !.passed = Bool(any_passed(sub_results)), !.kind = "any_of",
                           !.results = sub_results,
                           !.evidence = <<"OR group", ToString(PassedCount(sub_results)),
                                          ToString(Len(sub_results))>>,
                           !.skipped_items = SkippedNames(sub_results),
                           !.calls = Flatten([k \in 1..Len(sub_results) |->
                                                sub_results[k].calls])]
    ELSE IF item.has_check
    THEN LET check_result == verify_check(item.check) IN
         [result EXCEPT !.passed = check_result.passed, !.kind = "check",
                        !.skipped = check_result.skipped, !.type = check_result.type,
                        !.evidence = check_result.evidence,
                        !.calls = check_result.calls]
    ELSE [result EXCEPT !.evidence = <<"No check, group, or any_of defined">>]

verify_item(item) ==
    LET result == NoResult(IF item.item = "" THEN "Unknown" ELSE item.item) IN
    IF item.has_group
    THEN LET sub_results == [k \in 1..Len(item.group) |-> verify_item(item.group[k])]
         IN [result EXCEPT !.passed = Bool(all_passed(sub_results)), !.kind = "group",
                           !.results = sub_results,
                           !.evidence = <<"AND group", ToString(PassedCount(sub_results)),
                                          ToString(Len(sub_results))>>,
                           !.skipped_items = SkippedNames(sub_results),
                           !.calls = Flatten([k \in 1..Len(sub_results) |->
                                                sub_results[k].calls])]
    ELSE IF item.has_any_of
    THEN LET sub_results == [k \in 1..Len(item.any_of) |-> verify_item(item.any_of[k])]
         IN [result EXCEPT !.passed = Bool(any_passed(sub_results)), !.kind = "any_of",
                           !.results = sub_results,
                           !.evidence = <<"OR group", ToString(PassedCount(sub_results)),
                                          ToString(Len(sub_results))>>,
                           !.skipped_items = SkippedNames(sub_results),
                           !.calls = Flatten([k \in 1..Len(sub_results) |->
                                                sub_results[k].calls])]
    ELSE IF item.has_check
    THEN LET check_result == verify_check(item.check) IN
         [result EXCEPT !.passed = check_result.passed, !.kind = "check",
                        !.skipped = check_result.skipped, !.type = check_result.type,
                        !.evidence = check_result.evidence,
                        !.calls = check_result.calls]
    ELSE [result EXCEPT !.evidence = <<"No check, group, or any_of defined">>]

\* the skipped list main collects from the root items: the name of a skipped
\* item, else the skipped_items of the item (each with ' (type: quality)')
RootSkipped(results) ==
    Flatten([k \in 1..Len(results) |->
                IF results[k].skipped THEN <<results[k].item>>
                ELSE results[k].skipped_items])

\* (a variant in which a skipped root item fails the checklist)
checklist_passed_strict(results) ==
    \A k \in 1..Len(results) : Truthy(results[k].passed)

\* all_passed of main: no root item is at once not skipped and not passed
checklist_passed(results) ==
    \A k \in 1..Len(results) : results[k].skipped \/ Truthy(results[k].passed)

\* the output of verify_checklist for the lines of the state file
verify_checklist(lines) ==
    LET base_case == parse_base_case(lines) IN
    IF base_case.format = "checklist"
    THEN LET results == [k \in 1..Len(base_case.checklist) |->
                            verify_item(base_case.checklist[k])]
         IN [passed |-> Bool(checklist_passed(results)),
             checklist |-> results, skipped |-> RootSkipped(results),
             error |-> FALSE]
    ELSE IF base_case.has_type
    THEN LET check_result == verify_check(base_case.check) IN
         [passed |-> check_result.passed,
          checklist |-> <<[NoResult("base_case") EXCEPT
                            !.passed = check_result.passed, !.kind = "check",
                            !.skipped = check_result.skipped,
                            !.type = check_result.type,
                            !.evidence = check_result.evidence,
                            !.calls = check_result.calls]>>,
          skipped |-> IF check_result.skipped THEN <<"base_case">> ELSE <<>>,
          error |-> FALSE]
    ELSE [passed |-> "False", checklist |-> <<>>, skipped |-> <<>>, error |-> TRUE]

\* -------------------------------------------------------------- check_gate
\* re.search(r'<field>:', content): the first line that holds '<field>:', or 0
FirstField(lines, field) ==
    LET S == {i \in 1..Len(lines) :
                lines[i].form \notin {"raw", "item"} /\ lines[i].key = field} IN
    IF S = {} THEN 0 ELSE Min(S)

\* the text of a line after its indentation, as far as the value patterns
\* read it when \s* has run over the end of the line above
LineText(line) == IF line.form = "raw" THEN line.key ELSE line.key \o ":"

\* match.group(1) of r'<field>:\s*["']?([^"'\n]+)' at line i, "" for no match.
\* \s* runs over line ends: after a bare '<field>:' the group is the text of
\* the next line. After '<field>: ""' the pattern backs off and the group is
\* the blank before the quotes.
Captured(lines, i) ==
    LET line == lines[i] IN
    CASE line.form = "scalar" ->
            IF Scalar(line) = "" THEN " " ELSE Scalar(line)
      [] line.form = "list" -> "[]"
      [] line.form = "map" -> "{}"
      [] line.form = "block" -> "|"
      [] OTHER -> IF i < Len(lines) THEN LineText(lines[i + 1]) ELSE ""

\* value.lower() in ('null', '~', '""', "''"), for the values a group can hold
EmptyWords == {"null", "Null", "NULL", "~"}

ValueFields == {"goal", "background_intent", "deliverables", "definition_of_done"}

\* the entries the objective fields add to missing: <<what, why>>
MissingObjective(lines) ==
    {<<"objective." \o f, "absent">> :
        f \in {x \in ValueFields :
                \/ FirstField(lines, x) = 0
                \/ Captured(lines, FirstField(lines, x)) = ""}}
    \cup {<<"objective." \o f, "empty">> :
        f \in {x \in ValueFields :
                /\ FirstField(lines, x) # 0
                /\ Captured(lines, FirstField(lines, x)) \in EmptyWords}}
    \cup (IF FirstField(lines, "base_case") = 0
          THEN {<<"objective.base_case", "absent">>} ELSE {})

\* re.search(r'atoms:\s*\n\s*- id:', content)
AtomsMatch(lines) ==
    \E i \in 1..(Len(lines) - 1) :
        /\ lines[i].form = "none" /\ lines[i].key = "atoms"
        /\ IsIdLine(lines[i + 1])

\* re.search(r'\n  status:\s*(\w+)', content): the word, or None
StatusMatch(lines) ==
    LET S == {i \in 2..Len(lines) :
                IsControlLine(lines[i], "status") /\ Scalar(lines[i]) # ""} IN
    IF S = {} THEN None ELSE Scalar(lines[Min(S)])

check_gate(lines) ==
    LET status == StatusMatch(lines)
        missing ==
            MissingObjective(lines)
            \cup (IF AtomsMatch(lines) THEN {} ELSE {<<"atoms", "none">>})
            \cup (IF status = None THEN {<<"control.status", "absent">>}
                  ELSE IF status \notin {"pending", "stopped", "running"}
                  THEN {<<"control.status", "invalid">>}
                  ELSE {})
    IN [ready |-> missing = {}, missing |-> missing, status |-> status]

\* ------------------------------------------------------ the invocations
NoCall ==
    [op |-> "none", ok |-> TRUE, err |-> "",
     atom_id |-> "", description |-> "", depends_on |-> <<>>, or_group |-> None,
     children |-> <<>>, descriptions |-> <<>>, reason |-> "",
     group_name |-> "", new_selection |-> "", status |-> "",
     summary |-> <<>>, artifacts |-> <<>>]

\* what a tool prints: the snapshot of read_state, the verdict of
\* validate_state, the report of verify_checklist, the answer of check_gate
NoOutput ==
    [atoms |-> <<>>, bindings |-> {}, executable_atoms |-> <<>>,
     valid |-> FALSE, errors |-> {}, warnings |-> {}, atom_count |-> 0,
     cycle |-> <<>>,
     passed |-> "False", checklist |-> <<>>, skipped |-> <<>>, error |-> FALSE,
     ready |-> FALSE, missing |-> {}, status |-> None]

\* the invocations that run side by side, and where each one stands:
\* "ready" before 'content = state_file.read_text()', "read" between the
\* read and 'state_file.write_text(...)', "done" after its report
Writers == {"w1", "w2"}
\* read_at and wrote_at: the invocations that had finished at its read, and
\* its place among the finished ones
NotHeld ==
    [pc |-> "ready", call |-> NoCall, content |-> <<>>, read_at |-> 0, wrote_at |-> 0]
NoneHeld == [w \in Writers |-> NotHeld]

\* what every tool does once it has its outcome: write the file on success,
\* leave it on failure, and report
Finish(call, ok, err, new) ==
    /\ clock < MaxOps
    /\ clock' = clock + 1
    /\ pre' = doc
    /\ doc' = IF ok THEN new ELSE doc
    /\ last' = [call EXCEPT !.ok = ok, !.err = err]
    /\ out' = NoOutput
    /\ UNCHANGED <<exists, held>>

\* a tool that reads and keeps its verdict in the file
Report_recording(call, ok, err, result) ==
    /\ clock < MaxOps
    /\ clock' = clock + 1
    /\ pre' = doc
    /\ doc' = IF exists
              THEN doc \o <<Ln(0, FALSE, "verdict", "scalar", <<IF ok THEN "ok" ELSE "failed">>)>>
              ELSE doc
    /\ last' = [call EXCEPT !.ok = ok, !.err = err]
    /\ out' = result
    /\ UNCHANGED <<exists, held>>

\* a tool that only reads: the file is not written, the result is printed
Report(call, ok, err, result) ==
    /\ clock < MaxOps
    /\ clock' = clock + 1
    /\ pre' = doc
    /\ last' = [call EXCEPT !.ok = ok, !.err = err]
    /\ out' = result
    /\ UNCHANGED <<exists, doc, held>>

\* <<atom_id, --depends-on split at the commas, --or-group>>
AddAtomArgs ==
    { <<"A1", <<>>, None>>,
      <<"A3", <<>>, None>>,
      <<"A3", <<"A1">>, "g1">>,
      <<"A3", <<"A3">>, None>>,
      <<"A3", <<"A2", "A4">>, None>>,
      <<"A4", <<"A1", "A3">>, None>> }

\* a dependency check that looks at the first dependency only
MissingFirstDependency(depends_on, existing_ids) ==
    depends_on # <<>> /\ depends_on[1] \notin existing_ids

\* "for dep in depends_on: if dep not in existing_ids"
MissingDependency(depends_on, existing_ids) ==
    \E k \in 1..Len(depends_on) : depends_on[k] \notin existing_ids

\* a main that checks the id of the atom and not its dependencies
add_atom_main_unchecked(content, call) ==
    IF call.atom_id \in parse_existing_ids(content)
    THEN [ok |-> FALSE, err |-> "duplicate", new |-> content]
    ELSE [ok |-> TRUE, err |-> "",
          new |-> add_atom(content, call.atom_id, call.description,
                           call.depends_on, call.or_group)]

\* main of add_atom.py from the content it read to its report and to the
\* content it writes
add_atom_main(content, call) ==
    LET existing_ids == parse_existing_ids(content) IN
    IF call.atom_id \in existing_ids
    THEN [ok |-> FALSE, err |-> "duplicate", new |-> content]
    ELSE IF MissingDependency(call.depends_on, existing_ids)
    THEN [ok |-> FALSE, err |-> "unknown-dependency", new |-> content]
    ELSE [ok |-> TRUE, err |-> "",
          new |-> add_atom(content, call.atom_id, call.description,
                           call.depends_on, call.or_group)]

AddAtomCall(arg) ==
    [NoCall EXCEPT !.op = "add_atom", !.atom_id = arg[1], !.description = "d",
                   !.depends_on = arg[2], !.or_group = arg[3]]

AddAtom ==
    \E arg \in AddAtomArgs :
        LET call == AddAtomCall(arg)
            result == add_atom_main(doc, call)
        IN  IF ~exists THEN Finish(call, FALSE, "not-found", doc)
            ELSE Finish(call, result.ok, result.err, result.new)

\* <<parent_id, --children split at ',', --descriptions split at '|||'>>
DecomposeArgs ==
    { <<"A1", <<"A3">>, <<"c1">>>>,
      <<"A1", <<"A3", "A4">>, <<"c1", "c2">>>>,
      <<"A1", <<"A4", "A4">>, <<"c1", "c2">>>>,
      <<"A1", <<"A4", "A2">>, <<"c1", "c2">>>>,
      <<"A1", <<"A3", "A4">>, <<"c1">>>>,
      <<"A2", <<"A3">>, <<"c1">>>>,
      <<"A3", <<"A4">>, <<"c1">>>>,
      <<"A3", <<"A3">>, <<"c1", "c2">>>> }

\* a child check that looks at the first child only
FirstChildIdExists(children, existing_ids) ==
    children # <<>> /\ children[1] \in existing_ids

\* "for child_id in children: if child_id in existing_ids"
ChildIdExists(children, existing_ids) ==
    \E k \in 1..Len(children) : children[k] \in existing_ids

DecomposeAtom ==
    \E arg \in DecomposeArgs :
        LET parent_id == arg[1]
            children == arg[2]
            descriptions == arg[3]
            call == [NoCall EXCEPT !.op = "decompose_atom", !.atom_id = parent_id,
                        !.children = children, !.descriptions = descriptions,
                        !.reason = "split"]
            parent == parse_atom_info(doc, parent_id)
            existing_ids == parse_existing_ids(doc)
        IN  IF ~exists THEN Finish(call, FALSE, "not-found", doc)
            ELSE IF parent = <<>> THEN Finish(call, FALSE, "parent-not-found", doc)
            ELSE IF Len(children) # Len(descriptions)
                THEN Finish(call, FALSE, "count-mismatch", doc)
            ELSE IF ChildIdExists(children, existing_ids)
                THEN Finish(call, FALSE, "duplicate", doc)
            ELSE Finish(call, TRUE, "",
                    add_decomposition_record(
                        add_child_atoms(doc, parent[1].depends_on, children,
                                        descriptions, parent_id),
                        parent_id, children, "split", clock + 1))

\* <<atom_id, status>>
UpdateArgs == ({"A1", "A2", "A3"} \X ValidStatuses) \cup {<<"A1", "done">>}

UpdateAtom ==
    \E arg \in UpdateArgs :
        LET atom_id == arg[1]
            status == arg[2]
            call == [NoCall EXCEPT !.op = "update_atom", !.atom_id = atom_id,
                        !.status = status]
            r == update_atom_status(doc, atom_id, status)
        IN  IF status \notin ValidStatuses
                THEN Finish(call, FALSE, "invalid-status", doc)
            ELSE IF ~exists THEN Finish(call, FALSE, "not-found", doc)
            ELSE IF ~r[2] THEN Finish(call, FALSE, "atom-not-found", doc)
            ELSE Finish(call, TRUE, "", r[1])

SelectionArgs == {"A1", "A2"}

\* main of switch_or_branch.py from the content it read to its report and to
\* the content it writes
switch_or_branch_main(content, call, now) ==
    [ok |-> TRUE, err |-> "",
     new |-> add_trail_entry(
                 update_or_group_selection(content, call.group_name,
                                           call.new_selection),
                 call.group_name, call.new_selection, call.reason, now)]

SwitchCall(group_name, new_selection) ==
    [NoCall EXCEPT !.op = "switch_or_branch", !.group_name = group_name,
                   !.new_selection = new_selection, !.reason = "retry"]

SwitchOrBranch ==
    \E group_name \in GroupNames, new_selection \in SelectionArgs :
        LET call == SwitchCall(group_name, new_selection)
            result == switch_or_branch_main(doc, call, clock + 1)
        IN  IF ~exists THEN Finish(call, FALSE, "not-found", doc)
            ELSE Finish(call, result.ok, result.err, result.new)

\* <<atom_id, --summary split at the newlines, --artifacts split at ','>>
BindingArgs ==
    { <<"A1", <<"done">>, <<"out.txt">>>>,
      <<"A1", <<"again">>, <<>>>>,
      <<"A1", <<"first", "second">>, <<"a.txt", "b.txt">>>>,
      <<"A2", <<"done">>, <<"out.txt">>>>,
      <<"A2", <<"again">>, <<>>>>,
      <<"A2", <<"first", "second">>, <<"a.txt", "b.txt">>>>,
      <<"A3", <<"done">>, <<"out.txt">>>> }

\* a binding tool that also marks the atom it binds resolved
AddBinding_resolving ==
    \E arg \in BindingArgs :
        LET call == [NoCall EXCEPT !.op = "add_binding", !.atom_id = arg[1],
                        !.summary = arg[2], !.artifacts = arg[3]]
        IN  IF ~exists THEN Finish(call, FALSE, "not-found", doc)
            ELSE Finish(call, TRUE, "",
                        add_binding(update_atom_status(doc, arg[1], "resolved")[1],
                                    arg[1], arg[2], arg[3]))

AddBinding ==
    \E arg \in BindingArgs :
        LET atom_id == arg[1]
            summary == arg[2]
            artifacts == arg[3]
            call == [NoCall EXCEPT !.op = "add_binding", !.atom_id = atom_id,
                        !.summary = summary, !.artifacts = artifacts]
        IN  IF ~exists THEN Finish(call, FALSE, "not-found", doc)
            ELSE Finish(call, TRUE, "", add_binding(doc, atom_id, summary, artifacts))

\* <<status, --reason>>
SetStatusArgs ==
    { <<"running", None>>, <<"stopped", "halt">>,
      <<"completed", None>>, <<"completed", "halt">> }

SetStatus ==
    \E arg \in SetStatusArgs :
        LET status == arg[1]
            reason == arg[2]
            call == [NoCall EXCEPT !.op = "set_status", !.status = status,
                        !.reason = reason]
        IN  IF ~exists THEN Finish(call, FALSE, "not-found", doc)
            ELSE Finish(call, TRUE, "", set_loop_status(doc, status, reason))

ReadState ==
    LET call == [NoCall EXCEPT !.op = "read_state"] IN
    IF ~exists THEN Report(call, FALSE, "not-found", NoOutput)
    ELSE LET state == read_state(doc) IN
         Report(call, TRUE, "",
                [NoOutput EXCEPT !.atoms = state.atoms, !.bindings = state.bindings,
                                 !.executable_atoms = state.executable_atoms])

ValidateState ==
    LET call == [NoCall EXCEPT !.op = "validate_state"] IN
    IF ~exists
    THEN Report(call, FALSE, "not-found",
                [NoOutput EXCEPT !.errors = {<<"file", "not-found", "">>}])
    ELSE LET result == validate_state_file(doc) IN
         Report(call, result.valid, IF result.valid THEN "" ELSE "invalid",
                [NoOutput EXCEPT !.valid = result.valid, !.errors = result.errors,
                                 !.warnings = result.warnings,
                                 !.atom_count = result.atom_count,
                                 !.cycle = result.cycle])

VerifyChecklist ==
    LET call == [NoCall EXCEPT !.op = "verify_checklist"] IN
    IF ~exists THEN Report(call, FALSE, "not-found", NoOutput)
    ELSE LET output == verify_checklist(doc) IN
         Report(call, Truthy(output.passed),
                IF Truthy(output.passed) THEN "" ELSE "not-passed",
                [NoOutput EXCEPT !.passed = output.passed,
                                 !.checklist = output.checklist,
                                 !.skipped = output.skipped,
                                 !.error = output.error])

CheckGate ==
    LET call == [NoCall EXCEPT !.op = "check_gate"] IN
    IF ~exists
    THEN Report(call, FALSE, "not-found",
                [NoOutput EXCEPT !.missing = {<<"file", "absent">>}])
    ELSE LET result == check_gate(doc) IN
         Report(call, result.ready, IF result.ready THEN "" ELSE "not-ready",
                [NoOutput EXCEPT !.ready = result.ready,
                                 !.missing = result.missing,
                                 !.status = result.status])

\* ------------------------------------------------------ initial ledgers
ObjectiveLines ==
    << Hdr("objective"),
       Ln(2, FALSE, "goal", "scalar", <<"goal">>),
       Ln(2, FALSE, "base_case", "none", <<>>),
       Ln(4, FALSE, "type", "scalar", <<"command">>),
       Ln(4, FALSE, "value", "scalar", <<"true">>),
       Ln(2, FALSE, "background_intent", "scalar", <<"why">>),
       Ln(2, FALSE, "deliverables", "scalar", <<"what">>),
       Ln(2, FALSE, "definition_of_done", "scalar", <<"done">>) >>

ControlLines ==
    << Hdr("control"),
       Ln(2, FALSE, "status", "scalar", <<"pending">>),
       Ln(2, FALSE, "iteration", "scalar", <<"0">>),
       Ln(2, FALSE, "stall_count", "scalar", <<"0">>),
       Ln(2, FALSE, "stop_reason", "scalar", <<"null">>) >>

LedgerOf(objectiveLines, atomLines, groupLines) ==
    <<Fence>> \o objectiveLines \o ControlLines
    \o <<Hdr("atoms")>> \o atomLines
    \o <<EmptyList("decompositions")>>
    \o (IF groupLines = <<>> THEN <<EmptyMap("or_groups")>>
        ELSE <<Hdr("or_groups")>> \o groupLines)
    \o <<EmptyList("trail"), EmptyMap("bindings"), Fence>>

Ledger(atomLines, groupLines) == LedgerOf(ObjectiveLines, atomLines, groupLines)

GroupLines(name, choices, selected, failed) ==
    << Ln(2, FALSE, name, "none", <<>>),
       Ln(4, FALSE, "choices", "list", choices),
       Ln(4, FALSE, "selected", "scalar", <<selected>>),
       Ln(4, FALSE, "failed", "list", failed) >>

\* a fresh ledger: A1, and A2 that depends on A1
FreshLedger ==
    Ledger(AtomLines("A1", "d", <<>>, None) \o AtomLines("A2", "d", <<"A1">>, None),
           <<>>)

\* a ledger with two alternatives in OR-group g1, A2 already marked failed
BranchLedger ==
    Ledger(AtomLines("A1", "d", <<>>, "g1") \o AtomLines("A2", "d", <<>>, "g1"),
           GroupLines("g1", <<"A1", "A2">>, "A1", <<"A2">>))

\* a partially written ledger: A1 depends on A3, which is not there yet
PartialLedger ==
    Ledger(AtomLines("A1", "d", <<"A3">>, None), <<>>)

\* a ledger of a run under way: A1 resolved and bound, A2 waiting on it
ResumedLedger ==
    LET fresh == Ledger(AtomLines("A1", "d", <<>>, None)
                        \o AtomLines("A2", "d", <<"A1">>, None), <<>>)
        bound == add_binding(update_atom_status(fresh, "A1", "resolved")[1],
                             "A1", <<"done">>, <<"out.txt">>)
    IN bound

InitialLedgers == {FreshLedger, BranchLedger, PartialLedger, ResumedLedger}

Init ==
    /\ exists \in BOOLEAN
    /\ doc \in (IF exists THEN InitialLedgers ELSE {<<>>})
    /\ pre = doc
    /\ last = NoCall
    /\ out = NoOutput
    /\ clock = 0
    /\ held = NoneHeld

Next ==
    \/ AddAtom
    \/ DecomposeAtom
    \/ UpdateAtom
    \/ AddBinding
    \/ SwitchOrBranch
    \/ SetStatus
    \/ ReadState
    \/ ValidateState
    \/ VerifyChecklist
    \/ CheckGate

Spec == Init /\ [][Next]_vars

\* --------------------------------------- validate_state on any small graph
GraphNodes == <<"A1", "A2", "A3">>
DepNames == {"A1", "A2", "A3", "A4"}

\* the depends_on lists: no name twice, A4 is always dangling
DepLists ==
    {deps \in UNION {[1..n -> DepNames] : n \in 0..MaxDeps} :
        \A i, j \in DOMAIN deps : deps[i] = deps[j] => i = j}

GraphLedger(deps) ==
    Ledger(AtomLines(GraphNodes[1], "d", deps[1], None)
           \o AtomLines(GraphNodes[2], "d", deps[2], None)
           \o AtomLines(GraphNodes[3], "d", deps[3], None), <<>>)

InitCycle ==
    /\ exists = TRUE
    /\ doc \in {GraphLedger(deps) : deps \in DepLists \X DepLists \X DepLists}
    /\ pre = doc
    /\ last = NoCall
    /\ out = NoOutput
    /\ clock = 0
    /\ held = NoneHeld

\* validate_state is run once on the graph
NextCycle == clock = 0 /\ ValidateState

SpecCycle == InitCycle /\ [][NextCycle]_vars

\* --------------------- validate_state and check_gate on ledgers being written
\* how a field of the objective stands in the ledger: with a value, not at
\* all, as '<field>: ""', as '<field>: null', or as a bare '<field>:'
FieldStates == {"set", "absent", "blank", "null", "bare"}

FieldLine(name, state) ==
    CASE state = "set" -> <<Ln(2, FALSE, name, "scalar", <<"text">>)>>
      [] state = "blank" -> <<Ln(2, FALSE, name, "scalar", <<"">>)>>
      [] state = "null" -> <<Ln(2, FALSE, name, "scalar", <<"null">>)>>
      [] state = "bare" -> <<Ln(2, FALSE, name, "none", <<>>)>>
      [] OTHER -> <<>>

DraftObjective(header, goal, base_case, intent, done) ==
    (IF header THEN <<Hdr("objective")>> ELSE <<>>)
    \o FieldLine("goal", goal)
    \o (IF base_case
        THEN << Ln(2, FALSE, "base_case", "none", <<>>),
                Ln(4, FALSE, "type", "scalar", <<"command">>),
                Ln(4, FALSE, "value", "scalar", <<"true">>) >>
        ELSE <<>>)
    \o FieldLine("background_intent", intent)
    \o FieldLine("deliverables", intent)
    \o FieldLine("definition_of_done", done)

\* the control section: not there, without its status line, or with a status
ControlStates == {"absent", "no-status", "pending", "running", "stopped", "completed"}

DraftControl(control) ==
    IF control = "absent" THEN <<>>
    ELSE <<Hdr("control")>>
         \o (IF control = "no-status" THEN <<>>
             ELSE <<Ln(2, FALSE, "status", "scalar", <<control>>)>>)
         \o << Ln(2, FALSE, "iteration", "scalar", <<"0">>),
               Ln(2, FALSE, "stall_count", "scalar", <<"0">>) >>

\* the atoms section: not there, 'atoms: []', one atom, the same ID twice, two
\* atoms that depend on each other, an atom that depends on an atom not there
AtomsStates == {"absent", "empty", "one", "duplicate", "cycle", "dangling"}

DraftAtoms(atoms) ==
    CASE atoms = "absent" -> <<>>
      [] atoms = "empty" -> <<EmptyList("atoms")>>
      [] atoms = "one" -> <<Hdr("atoms")>> \o AtomLines("A1", "d", <<>>, None)
      [] atoms = "duplicate" ->
            <<Hdr("atoms")>> \o AtomLines("A1", "d", <<>>, None)
            \o AtomLines("A1", "d", <<>>, None)
      [] atoms = "cycle" ->
            <<Hdr("atoms")>> \o AtomLines("A1", "d", <<"A2">>, None)
            \o AtomLines("A2", "d", <<"A1">>, None)
      [] OTHER -> <<Hdr("atoms")>> \o AtomLines("A1", "d", <<"A4">>, None)

\* the '---' lines: both, the first one missing, the second one missing
FenceStates == {"fenced", "unopened", "unclosed"}

DraftLedger(fences, objective, control, atoms) ==
    (IF fences = "unopened" THEN <<>> ELSE <<Fence>>)
    \o objective \o DraftControl(control) \o DraftAtoms(atoms)
    \o <<EmptyList("decompositions"), EmptyMap("or_groups"), EmptyList("trail"),
         EmptyMap("bindings")>>
    \o (IF fences = "unclosed" THEN <<>> ELSE <<Fence>>)

DraftObjectives ==
    {DraftObjective(header, goal, base_case, intent, done) :
        header \in BOOLEAN, goal \in FieldStates, base_case \in BOOLEAN,
        intent \in {"set", "absent"}, done \in FieldStates \ {"null"}}

DraftLedgers ==
    {DraftLedger(fences, objective, control, atoms) :
        fences \in FenceStates, objective \in DraftObjectives,
        control \in ControlStates, atoms \in AtomsStates}

InitDraft ==
    /\ exists = TRUE
    /\ doc \in DraftLedgers
    /\ pre = doc
    /\ last = NoCall
    /\ out = NoOutput
    /\ clock = 0
    /\ held = NoneHeld

\* validate_state or check_gate is run once on the ledger
NextDraft == clock = 0 /\ (ValidateState \/ CheckGate)

SpecDraft == InitDraft /\ [][NextDraft]_vars

\* ------------------------------------- verify_checklist on small checklists
Check(type, value) == [NoCheck EXCEPT !.type = type, !.value = value]
QualityCheck ==
    [type |-> "quality", value |-> "", criteria |-> "readable", pass_threshold |-> "80"]

LeafItem(check) == [NoItem("") EXCEPT !.has_check = TRUE, !.check = check]
GroupItem(kind, kids) ==
    IF kind = "group" THEN [NoItem("") EXCEPT !.has_group = TRUE, !.group = kids]
    ELSE [NoItem("") EXCEPT !.has_any_of = TRUE, !.any_of = kids]

\* every kind of leaf: the four mechanical types on each answer of their
\* collaborator, quality, a type that is not known, an item without a check
MechanicalChecks ==
    {Check(t, v) : t \in {"command", "not_command"}, v \in CommandValues}
    \cup {Check(t, v) : t \in {"file", "not_file"}, v \in PathValues}
AnyLeaves ==
    {LeafItem(c) : c \in MechanicalChecks \cup {QualityCheck, Check("bogus", "x")}}
    \cup {NoItem("")}

\* the leaves the groups are built of: one that passes, one that fails, one
\* that is skipped
GroupLeaves ==
    {LeafItem(Check("command", "true")), LeafItem(Check("command", "false")),
     LeafItem(QualityCheck)}

Kids(S) == UNION {[1..n -> S] : n \in 0..MaxWidth}

\* groups of leaves, and groups that hold one such group, alone or next to a leaf
FlatGroups == {GroupItem(kind, kids) : kind \in {"group", "any_of"}, kids \in Kids(GroupLeaves)}
NestedGroups ==
    {GroupItem(kind, kids) :
        kind \in {"group", "any_of"},
        kids \in {<<g>> : g \in FlatGroups}
                 \cup {<<l, g>> : l \in GroupLeaves, g \in FlatGroups}
                 \cup {<<g, l>> : l \in GroupLeaves, g \in FlatGroups}}

\* the item and the items below it, named after their place in the checklist
RECURSIVE Named(_, _)
Named(item, path) ==
    [item EXCEPT
        !.item = path,
        !.group = [k \in 1..Len(item.group) |->
                    Named(item.group[k], path \o "." \o ToString(k))],
        !.any_of = [k \in 1..Len(item.any_of) |->
                    Named(item.any_of[k], path \o "." \o ToString(k))]]

Checklists ==
    {<<Named(i, "i1")>> : i \in AnyLeaves \cup FlatGroups \cup NestedGroups}
    \cup {<<Named(i, "i1"), Named(j, "i2")>> :
            i \in GroupLeaves \cup FlatGroups, j \in GroupLeaves}

\* the lines of a check, of an item and of a list of items at an indentation
CheckLines(check, ind) ==
    SelectSeq(<< Ln(ind, FALSE, "type", "scalar", <<check.type>>),
                 Ln(ind, FALSE, "value", "scalar", <<check.value>>),
                 Ln(ind, FALSE, "criteria", "scalar", <<check.criteria>>),
                 Ln(ind, FALSE, "pass_threshold", "scalar", <<check.pass_threshold>>) >>,
              LAMBDA line : line.val # <<"">>)

RECURSIVE ItemLines(_, _)
ItemLines(item, ind) ==
    <<Ln(ind, TRUE, "item", "scalar", <<item.item>>)>>
    \o (IF item.has_group
        THEN <<Ln(ind + 2, FALSE, "group", "none", <<>>)>>
             \o Flatten([k \in 1..Len(item.group) |-> ItemLines(item.group[k], ind + 4)])
        ELSE <<>>)
    \o (IF item.has_any_of
        THEN <<Ln(ind + 2, FALSE, "any_of", "none", <<>>)>>
             \o Flatten([k \in 1..Len(item.any_of) |-> ItemLines(item.any_of[k], ind + 4)])
        ELSE <<>>)
    \o (IF item.has_check
        THEN <<Ln(ind + 2, FALSE, "check", "none", <<>>)>> \o CheckLines(item.check, ind + 4)
        ELSE <<>>)

\* an objective whose base_case is a checklist, or a single legacy check
ObjectiveWith(baseCaseLines) ==
    << Hdr("objective"),
       Ln(2, FALSE, "goal", "scalar", <<"goal">>),
       Ln(2, FALSE, "base_case", "none", <<>>) >>
    \o baseCaseLines
    \o << Ln(2, FALSE, "background_intent", "scalar", <<"why">>),
          Ln(2, FALSE, "deliverables", "scalar", <<"what">>),
          Ln(2, FALSE, "definition_of_done", "scalar", <<"done">>) >>

ChecklistLedger(items) ==
    LedgerOf(ObjectiveWith(<<Ln(4, FALSE, "checklist", "none", <<>>)>>
                           \o Flatten([k \in 1..Len(items) |-> ItemLines(items[k], 6)])),
             AtomLines("A1", "d", <<>>, None), <<>>)

LegacyLedger(check) ==
    LedgerOf(ObjectiveWith(CheckLines(check, 4)), AtomLines("A1", "d", <<>>, None), <<>>)

InitChecklist ==
    /\ exists = TRUE
    /\ doc \in {ChecklistLedger(items) : items \in Checklists}
              \cup {LegacyLedger(check) :
                        check \in MechanicalChecks \cup {QualityCheck, Check("bogus", "x")}}
    /\ pre = doc
    /\ last = NoCall
    /\ out = NoOutput
    /\ clock = 0
    /\ held = NoneHeld

\* verify_checklist is run once on the ledger
NextChecklist == clock = 0 /\ VerifyChecklist

SpecChecklist == InitChecklist /\ [][NextChecklist]_vars

\* ------------------------------- every tool on ledgers that hold a checklist
\* a checklist with a leaf, a group and a group inside a group
FramedChecklist ==
    << Named(LeafItem(Check("command", "true")), "i1"),
       Named(GroupItem("any_of", <<LeafItem(Check("file", "absent.txt")),
                                   LeafItem(QualityCheck)>>), "i2"),
       Named(GroupItem("group", <<GroupItem("any_of", <<LeafItem(Check("not_file", "*.nil"))>>),
                                  LeafItem(Check("not_command", "false"))>>), "i3") >>

ChecklistObjective(items) ==
    ObjectiveWith(<<Ln(4, FALSE, "checklist", "none", <<>>)>>
                  \o Flatten([k \in 1..Len(items) |-> ItemLines(items[k], 6)]))

\* the ledgers of the tools' runs, their base case a checklist
FramedLedgers ==
    { LedgerOf(ChecklistObjective(FramedChecklist),
               AtomLines("A1", "d", <<>>, None) \o AtomLines("A2", "d", <<"A1">>, None),
               <<>>),
      LedgerOf(ChecklistObjective(FramedChecklist),
               AtomLines("A1", "d", <<>>, "g1") \o AtomLines("A2", "d", <<>>, "g2"),
               GroupLines("g1", <<"A1", "A3">>, "A1", <<"A3">>)
               \o GroupLines("g2", <<"A2", "A4">>, "A4", <<>>)),
      LedgerOf(ChecklistObjective(<<FramedChecklist[2]>>),
               AtomLines("A1", "d", <<"A3">>, None), <<>>) }

InitFrame ==
    /\ exists = TRUE
    /\ doc \in FramedLedgers
    /\ pre = doc
    /\ last = NoCall
    /\ out = NoOutput
    /\ clock = 0
    /\ held = NoneHeld

SpecFrame == InitFrame /\ [][Next]_vars

\* ------------------------------------ two invocations that are not serialized
\* the tools take no lock and compare no version: each one reads the file,
\* works on what it read, and writes the whole file back
RaceCalls ==
    {AddAtomCall(arg) : arg \in {<<"A3", <<>>, None>>, <<"A4", <<"A1">>, None>>,
                                 <<"A1", <<>>, None>>}}
    \cup {SwitchCall("g1", new_selection) : new_selection \in SelectionArgs}

\* a writer that reads the file again when it writes
content_reread(w) == doc

\* 'content = state_file.read_text()': the content the invocation works on
content_of(w) == held[w].content

main_of(call, content, now) ==
    IF call.op = "add_atom" THEN add_atom_main(content, call)
    ELSE switch_or_branch_main(content, call, now)

\* from the start of main to 'content = state_file.read_text()'
Read(w) ==
    /\ held[w].pc = "ready"
    /\ exists
    /\ \E call \in RaceCalls :
          held' = [held EXCEPT ![w] = [NotHeld EXCEPT !.pc = "read", !.call = call,
                                          !.content = doc, !.read_at = clock]]
    /\ UNCHANGED <<exists, doc, pre, last, out, clock>>

\* from there to the end of main: the checks, 'state_file.write_text(...)'
\* when they pass, and the report
Write(w) ==
    /\ held[w].pc = "read"
    /\ LET result == main_of(held[w].call, content_of(w), clock + 1)
           call == [held[w].call EXCEPT !.ok = result.ok, !.err = result.err]
       IN  /\ doc' = IF result.ok THEN result.new ELSE doc
           /\ last' = call
           /\ held' = [held EXCEPT ![w].pc = "done", ![w].call = call,
                                   ![w].wrote_at = clock + 1]
    /\ pre' = doc
    /\ out' = NoOutput
    /\ clock' = clock + 1
    /\ UNCHANGED exists

InitRace ==
    /\ exists = TRUE
    /\ doc \in InitialLedgers
    /\ pre = doc
    /\ last = NoCall
    /\ out = NoOutput
    /\ clock = 0
    /\ held = NoneHeld

NextRace == \E w \in Writers : Read(w) \/ Write(w)

SpecRace == InitRace /\ [][NextRace]_vars

\* =================================================================
\* Properties
\* =================================================================
\* the ids of a sequence of atoms, and of a sequence of ids
IdsOf(atoms) == {atoms[k].id : k \in 1..Len(atoms)}
Range(seq) == {seq[k] : k \in 1..Len(seq)}

\* the atoms of a ledger that carry the id
WithId(atoms, id) == SelectSeq(atoms, LAMBDA a : a.id = id)

\* the last invocation was tool op, on a ledger that is there
Ran(op) == exists /\ last.op = op
Succeeded(op) == Ran(op) /\ last.ok
Failed(op, err) == Ran(op) /\ ~last.ok /\ last.err = err

\* ------------------------------------------------------------------ C1
\* C1: no atom ID is carried by two atoms of the ledger, in every state
\* reached from a ledger with unique IDs by add_atom and decompose_atom,
\* the children of one decompose_atom call included.
C1_UniqueAtomIds ==
    LET atoms == parse_atoms_basic(doc) IN
    \A i, j \in 1..Len(atoms) : atoms[i].id = atoms[j].id => i = j

\* ------------------------------------------------------------------ C2
\* a binding block for the id stands in the bindings section of the ledger
HasBinding(lines, id) ==
    \E i \in Section(lines, "bindings") : lines[i].ind = 2 /\ IsKeyLine(lines[i], id)

\* the dependency is satisfied: its atom is resolved, or it is bound
Satisfied(lines, atoms, dep) ==
    \/ \E k \in 1..Len(atoms) : atoms[k].id = dep /\ atoms[k].status = "resolved"
    \/ HasBinding(lines, dep)

Executable(lines, atoms, atom) ==
    /\ atom.status = "pending"
    /\ \A dep \in Range(atom.depends_on) : Satisfied(lines, atoms, dep)

\* C2: the executable_atoms of read_state are exactly the pending atoms whose
\* every depends_on ID is satisfied (resolved atom, or a binding for the ID);
\* in_progress and resolved atoms are never among them.
C2_FrontierExact ==
    LET r == read_state(doc) IN
    /\ \A k \in 1..Len(r.atoms) :
        r.atoms[k] \in Range(r.executable_atoms) <=> Executable(doc, r.atoms, r.atoms[k])
    /\ Range(r.executable_atoms) \subseteq Range(r.atoms)
    /\ \A a \in Range(r.executable_atoms) : a.status \notin {"in_progress", "resolved"}
    /\ Succeeded("read_state") =>
        /\ out.atoms = r.atoms
        /\ out.bindings = r.bindings
        /\ out.executable_atoms = r.executable_atoms

\* read_state after update_atom(A1, resolved) on the fresh ledger: A2 alone
C2_Witness ==
    /\ Succeeded("read_state")
    /\ pre = doc
    /\ [k \in 1..Len(out.atoms) |-> <<out.atoms[k].id, out.atoms[k].status>>]
        = << <<"A1", "resolved">>, <<"A2", "pending">> >>
    /\ [k \in 1..Len(out.executable_atoms) |-> out.executable_atoms[k].id] = <<"A2">>

\* ------------------------------------------------------------------ C3
\* C3: add_atom succeeds iff its id names no atom and each depends_on entry
\* names an atom of the ledger; it reports duplicate only for an id that is
\* there and unknown-dependency only when a dependency is absent (the id
\* itself counts as absent); a success puts the atom in the ledger.
C3_AddAtomOutcome ==
    Ran("add_atom") =>
        LET ids == IdsOf(parse_atoms(pre))
            fresh == last.atom_id \notin ids
            known == Range(last.depends_on) \subseteq ids
        IN  /\ last.ok <=> (fresh /\ known)
            /\ ~fresh => Failed("add_atom", "duplicate")
            /\ (fresh /\ ~known) => Failed("add_atom", "unknown-dependency")
            /\ last.atom_id \in Range(last.depends_on) => ~last.ok
            /\ last.ok => last.atom_id \in IdsOf(parse_atoms(doc))
            /\ ~last.ok => doc = pre

\* an add_atom turned down for a dependency that is not there
C3_Witness ==
    /\ Failed("add_atom", "unknown-dependency")
    /\ last.atom_id \notin IdsOf(parse_atoms(pre))
    /\ "A2" \in IdsOf(parse_atoms(pre))
    /\ last.depends_on = <<"A2", "A4">>

\* ------------------------------------------------------------------ C4
\* the '- parent:' lines of the decompositions section
DecompositionParents(lines) ==
    LET recs == InOrder({i \in Section(lines, "decompositions") :
                            lines[i].dash /\ lines[i].key = "parent"})
    IN [k \in 1..Len(recs) |-> Scalar(lines[recs[k]])]

\* C4: decompose_atom succeeds iff the parent is an atom of the ledger, there
\* are as many descriptions as children, and no child id is an atom id; it
\* reports parent-not-found, count-mismatch or duplicate accordingly, and a
\* failure adds no atom and no decomposition record.
C4_DecomposeOutcome ==
    Ran("decompose_atom") =>
        LET ids == IdsOf(parse_atoms(pre))
            found == last.atom_id \in ids
            paired == Len(last.children) = Len(last.descriptions)
            fresh == Range(last.children) \cap ids = {}
        IN  /\ last.ok <=> (found /\ paired /\ fresh)
            /\ ~found => Failed("decompose_atom", "parent-not-found")
            /\ (found /\ ~paired) => Failed("decompose_atom", "count-mismatch")
            /\ (found /\ paired /\ ~fresh) => Failed("decompose_atom", "duplicate")
            /\ ~last.ok =>
                /\ parse_atoms(doc) = parse_atoms(pre)
                /\ DecompositionParents(doc) = DecompositionParents(pre)
                /\ doc = pre

\* a decompose_atom turned down for its second child, which is an atom already
C4_Witness ==
    /\ Failed("decompose_atom", "duplicate")
    /\ last.children = <<"A4", "A2">>
    /\ "A4" \notin IdsOf(parse_atoms(pre))

\* ------------------------------------------------------------------ C5
\* the depends_on of the parent as the ledger had it before the call
ParentDependsOn == WithId(parse_atoms(pre), last.atom_id)[1].depends_on

\* the atoms of the ledger that the call inserted
InsertedAtoms ==
    SubSeq(parse_atoms(doc), Len(parse_atoms(pre)) + 1, Len(parse_atoms(doc)))

\* C5 (first half): after a successful decompose_atom each child's depends_on
\* equals the parent's depends_on as it was at decomposition time.
C5_ChildrenInheritDependencies ==
    Succeeded("decompose_atom") =>
        /\ [k \in 1..Len(InsertedAtoms) |-> InsertedAtoms[k].id] = last.children
        /\ \A k \in 1..Len(InsertedAtoms) :
            InsertedAtoms[k].depends_on = ParentDependsOn

\* C5: after a successful decompose_atom each child's depends_on equals the
\* parent's, and no child depends on the parent or on a sibling.
C5_DependencyPreserving ==
    Succeeded("decompose_atom") =>
        /\ [k \in 1..Len(InsertedAtoms) |-> InsertedAtoms[k].id] = last.children
        /\ \A k \in 1..Len(InsertedAtoms) :
            /\ InsertedAtoms[k].depends_on = ParentDependsOn
            /\ last.atom_id \notin Range(InsertedAtoms[k].depends_on)
            /\ Range(InsertedAtoms[k].depends_on) \cap Range(last.children) = {}

\* ------------------------------------------------------------------ C6
\* C6: decompose_atom is additive: the atoms the ledger had before the call
\* are all still there, in place and unchanged (id, description, status,
\* depends_on, or_group), the parent among them, neither resolved nor removed.
C6_DecomposeAdditive ==
    Succeeded("decompose_atom") =>
        LET before == parse_atoms(pre)
            after == parse_atoms(doc)
        IN  /\ Len(after) = Len(before) + Len(last.children)
            /\ SubSeq(after, 1, Len(before)) = before
            /\ WithId(after, last.atom_id)[1] = WithId(before, last.atom_id)[1]

\* a parent in progress, decomposed into two children
C6_Witness ==
    /\ Succeeded("decompose_atom")
    /\ last.children = <<"A3", "A4">>
    /\ WithId(parse_atoms(doc), last.atom_id)[1].status = "in_progress"

\* ------------------------------------------------------------------ C7
\* the ids one depends_on step away from the atoms named in S
DependsOnStep(atoms, S) ==
    UNION {Range(atoms[k].depends_on) : k \in {j \in 1..Len(atoms) : atoms[j].id \in S}}

RECURSIVE ReachableIn(_, _, _)
ReachableIn(atoms, S, n) ==
    IF n = 0 THEN S
    ELSE ReachableIn(atoms, S \cup DependsOnStep(atoms, S), n - 1)

\* some atom reaches itself along one or more depends_on steps
Cyclic(atoms) ==
    \E k \in 1..Len(atoms) :
        atoms[k].id \in ReachableIn(atoms, DependsOnStep(atoms, {atoms[k].id}),
                                    Len(atoms))

\* C7: detect_cycle returns the empty list exactly when the depends_on
\* relation of the atoms is acyclic, dangling dependencies included
C7_DetectCycleExact ==
    (last.op = "validate_state" /\ exists)
        => ((out.cycle = <<>>) <=> ~Cyclic(parse_atoms_basic(doc)))

\* a graph with a dangling dependency and a cycle through all three atoms
C7_Witness ==
    /\ last.op = "validate_state"
    /\ out.cycle # <<>>
    /\ Len(out.cycle) = 4
    /\ \E k \in 1..3 : "A4" \in Range(parse_atoms_basic(doc)[k].depends_on)

\* a graph with a dangling dependency and no cycle
C7_WitnessAcyclic ==
    /\ last.op = "validate_state"
    /\ out.cycle = <<>>
    /\ out.atom_count = 3
    /\ \E k \in 1..3 : "A4" \in Range(parse_atoms_basic(doc)[k].depends_on)
    /\ \E k \in 1..3 : Len(parse_atoms_basic(doc)[k].depends_on) = 2

\* ------------------------------------------------------------------ C9
\* the binding blocks of the id: its 'id:' lines in the bindings section
BindingBlocks(lines, id) ==
    {i \in Section(lines, "bindings") : lines[i].ind = 2 /\ IsKeyLine(lines[i], id)}

\* what read_state reports for the id
BindingOf(lines, id) == {t \in parse_bindings(lines) : t[1] = id}

\* C9: after add_binding the ledger holds one binding for the atom ID, with
\* exactly the summary and the artifacts of this call (no artifacts given,
\* none kept); the bindings of every other atom ID are what they were.
C9_BindingUpsert ==
    Succeeded("add_binding") =>
        /\ Cardinality(BindingBlocks(doc, last.atom_id)) = 1
        /\ BindingOf(doc, last.atom_id) =
                {<<last.atom_id, "summary", last.summary>>}
                \cup (IF last.artifacts # <<>>
                      THEN {<<last.atom_id, "artifacts", last.artifacts>>} ELSE {})
        /\ \A id \in {"A1", "A2", "A3"} \ {last.atom_id} :
            /\ BindingOf(doc, id) = BindingOf(pre, id)
            /\ Cardinality(BindingBlocks(doc, id)) = Cardinality(BindingBlocks(pre, id))

\* a second binding for A2, without artifacts, over a first one that had
\* some, in a ledger that also holds the binding of A1
C9_Witness ==
    /\ Succeeded("add_binding")
    /\ last.atom_id = "A2" /\ last.artifacts = <<>>
    /\ <<"A2", "artifacts", <<"out.txt">>>> \in BindingOf(pre, "A2")
    /\ BindingOf(pre, "A1") # {}

\* ----------------------------------------------------------------- C10
\* the record of an OR-group: its 'name:' line in the or_groups section and
\* the 4-space fields below it, up to the next group
GroupRecords(lines, group_name) ==
    {i \in Section(lines, "or_groups") : lines[i].ind = 2 /\ IsKeyLine(lines[i], group_name)}

GroupField(lines, group_name, key) ==
    LET span == Section(lines, "or_groups")
        g == Min(GroupRecords(lines, group_name))
        stops == {i \in span : i > g /\ lines[i].ind = 2}
        at == {i \in span : /\ i > g /\ (stops = {} \/ i < Min(stops))
                            /\ lines[i].ind = 4 /\ HasKey(lines[i], key)}
    IN IF at = {} THEN <<None>> ELSE lines[Min(at)].val

\* the or_group of each trail entry, in order
TrailGroups(lines) ==
    LET at == InOrder({i \in Section(lines, "trail") :
                        lines[i].dash /\ lines[i].key = "or_group"})
    IN [k \in 1..Len(at) |-> Scalar(lines[at[k]])]

\* C10: switch_or_branch on a group without a record succeeds and creates
\* the record with choices = [], selected = new_selection, failed = [],
\* whether or not the ledger holds other OR-groups.
C10_LazyGroupCreation ==
    (Ran("switch_or_branch") /\ GroupRecords(pre, last.group_name) = {}) =>
        /\ last.ok
        /\ Cardinality(GroupRecords(doc, last.group_name)) = 1
        /\ GroupField(doc, last.group_name, "choices") = <<>>
        /\ GroupField(doc, last.group_name, "selected") = <<last.new_selection>>
        /\ GroupField(doc, last.group_name, "failed") = <<>>

\* C10 (empty ledger): the same, for a ledger that holds no OR-group at all
C10_FirstGroupCreation ==
    (Ran("switch_or_branch") /\ \A g \in GroupNames : GroupRecords(pre, g) = {}) =>
        /\ last.ok
        /\ Cardinality(GroupRecords(doc, last.group_name)) = 1
        /\ GroupField(doc, last.group_name, "choices") = <<>>
        /\ GroupField(doc, last.group_name, "selected") = <<last.new_selection>>
        /\ GroupField(doc, last.group_name, "failed") = <<>>

\* ------------------------------------------------------------------ C8
\* the scalar of a 2-space field of the control section
ControlField(lines, key) ==
    LET at == {i \in Section(lines, "control") : IsControlLine(lines[i], key)}
    IN IF at = {} THEN None ELSE Scalar(lines[Min(at)])

\* the whole effect of the last call is in the ledger
FullEffect ==
    CASE last.op = "add_atom" ->
            /\ Len(parse_atoms(doc)) = Len(parse_atoms(pre)) + 1
            /\ LET atom == parse_atoms(doc)[Len(parse_atoms(doc))] IN
                /\ atom.id = last.atom_id
                /\ atom.depends_on = last.depends_on
                /\ atom.status = "pending"
      [] last.op = "decompose_atom" ->
            /\ [k \in 1..Len(InsertedAtoms) |-> InsertedAtoms[k].id] = last.children
            /\ DecompositionParents(doc)
                    = Append(DecompositionParents(pre), last.atom_id)
      [] last.op = "update_atom" ->
            \A k \in 1..Len(parse_atoms(doc)) :
                parse_atoms(doc)[k].id = last.atom_id
                    => parse_atoms(doc)[k].status = last.status
      [] last.op = "add_binding" ->
            <<last.atom_id, "summary", last.summary>> \in parse_bindings(doc)
      [] last.op = "switch_or_branch" ->
            /\ TrailGroups(doc) = Append(TrailGroups(pre), last.group_name)
            /\ GroupRecords(doc, last.group_name) # {}
            /\ GroupField(doc, last.group_name, "selected") = <<last.new_selection>>
      [] last.op = "set_status" ->
            /\ ControlField(doc, "status") = last.status
            /\ last.reason # None => ControlField(doc, "stop_reason") = last.reason
      [] OTHER -> TRUE

\* C8: every mutating tool is all-or-nothing: a reported success comes with
\* the whole effect in the ledger, a reported failure (the missing file
\* included) with the ledger exactly as it was.
C8_AllOrNothing ==
    /\ (last.op # "none" /\ ~last.ok) => doc = pre
    /\ (last.op # "none" /\ last.ok) => FullEffect

\* ----------------------------------------------------------------- C11
\* the entries of a list section: each '- first:' line with the field
\* lines below it, as a function from the field names to their values
Entries(lines, name, first) ==
    LET span == Section(lines, name)
        starts == InOrder({i \in span : lines[i].dash /\ lines[i].key = first})
        Body(k) == {i \in span : /\ i >= starts[k]
                                  /\ (k < Len(starts) => i < starts[k + 1])}
    IN [k \in 1..Len(starts) |-> {<<lines[i].key, lines[i].val>> : i \in Body(k)}]

Trail(lines) == Entries(lines, "trail", "or_group")

\* the entry the last switch_or_branch call describes
CalledTrailEntry ==
    { <<"or_group", <<last.group_name>>>>, <<"selected", <<last.new_selection>>>>,
      <<"reason", <<last.reason>>>>, <<"timestamp", <<Timestamp(clock)>>>> }

\* C11: every switch_or_branch invocation appends exactly one trail entry
\* (group, new selection, reason, timestamp) at the end of the trail, for a
\* known or a new group and for a selection that does not change; no other
\* tool touches the trail, which starts empty, so the length of the trail
\* is the number of switch_or_branch invocations.
C11_TrailAppend ==
    /\ last.op = "none" => Trail(doc) = <<>>
    /\ Ran("switch_or_branch") =>
            /\ last.ok
            /\ Trail(doc) = Append(Trail(pre), CalledTrailEntry)
    /\ (exists /\ last.op \notin {"none", "switch_or_branch"}) =>
            Len(Trail(doc)) = Len(Trail(pre))

\* a second switch, into the selection the group already has
C11_Witness ==
    /\ Succeeded("switch_or_branch")
    /\ GroupRecords(pre, last.group_name) # {}
    /\ GroupField(pre, last.group_name, "selected") = <<last.new_selection>>
    /\ Len(Trail(pre)) = 1
    /\ Len(Trail(doc)) = 2

\* ----------------------------------------------------------------- C12
Decompositions(lines) == Entries(lines, "decompositions", "parent")

IsPrefix(a, b) == Len(a) <= Len(b) /\ SubSeq(b, 1, Len(a)) = a

\* C12: the audit records are append-only: whatever tool ran, the trail and
\* the decomposition records the ledger had before the call are an
\* unchanged prefix of those it has after it (and so, call after call, of
\* those of every later state).
C12_AuditAppendOnly ==
    (exists /\ last.op # "none") =>
        /\ IsPrefix(Trail(pre), Trail(doc))
        /\ IsPrefix(Decompositions(pre), Decompositions(doc))

\* a second decomposition, recorded after the first
C12_Witness ==
    /\ Succeeded("decompose_atom")
    /\ Len(Decompositions(pre)) = 1
    /\ Len(Decompositions(doc)) = 2
    /\ Decompositions(doc)[1] = Decompositions(pre)[1]

\* ----------------------------------------------------------------- C13
\* C13: in every ledger state, for every OR-group with a record, the
\* selected atom ID is not in the group's failed list.
C13_SelectedNotFailed ==
    \A g \in GroupNames :
        GroupRecords(doc, g) # {} =>
            \A id \in Range(GroupField(doc, g, "selected")) :
                id \notin Range(GroupField(doc, g, "failed"))

\* ------------------------------------------------------------------
\* the results of a checklist, at every depth
RECURSIVE ResultNodes(_)
ResultNodes(results) ==
    UNION {{results[k]} \cup ResultNodes(results[k].results) : k \in 1..Len(results)}

\* how a result counts for the group it is in
Outcome(result) ==
    IF result.skipped THEN "skip" ELSE IF Truthy(result.passed) THEN "pass" ELSE "fail"
Outcomes(node) == [k \in 1..Len(node.results) |-> Outcome(node.results[k])]
ChildNames(node) == [k \in 1..Len(node.results) |-> node.results[k].item]

\* C14: an AND group passes exactly when none of its children that are not
\* skipped fails: [pass, pass] passes, [pass, fail] fails, and a group whose
\* children are all skipped passes and lists each of them in its
\* skipped_items.
C14_AndGroup ==
    Ran("verify_checklist") =>
        \A node \in ResultNodes(out.checklist) :
            node.kind = "group" =>
                LET o == Outcomes(node) IN
                /\ Truthy(node.passed) <=> (\A k \in 1..Len(o) : o[k] # "fail")
                /\ o = <<"pass", "pass">> => Truthy(node.passed)
                /\ o = <<"pass", "fail">> => ~Truthy(node.passed)
                /\ (\A k \in 1..Len(o) : o[k] = "skip") =>
                        /\ Truthy(node.passed)
                        /\ node.skipped_items = ChildNames(node)

\* an AND group of two skipped children has been verified
C14_Witness ==
    /\ Ran("verify_checklist")
    /\ \E node \in ResultNodes(out.checklist) :
            /\ node.kind = "group"
            /\ Outcomes(node) = <<"skip", "skip">>
            /\ Truthy(node.passed)
            /\ Len(node.skipped_items) = 2

\* C15: an OR group passes exactly when one of its children is not skipped
\* and passes: [fail, fail] fails, [fail, pass] passes, and a group whose
\* children are all skipped, or that has no children, fails.
C15_OrGroup ==
    Ran("verify_checklist") =>
        \A node \in ResultNodes(out.checklist) :
            node.kind = "any_of" =>
                LET o == Outcomes(node) IN
                /\ Truthy(node.passed) <=> (\E k \in 1..Len(o) : o[k] = "pass")
                /\ o = <<"fail", "fail">> => ~Truthy(node.passed)
                /\ o = <<"fail", "pass">> => Truthy(node.passed)
                /\ (\A k \in 1..Len(o) : o[k] = "skip") => node.passed = "False"

\* an OR group of two skipped children has been verified, and has failed
C15_Witness ==
    /\ Ran("verify_checklist")
    /\ \E node \in ResultNodes(out.checklist) :
            /\ node.kind = "any_of"
            /\ Outcomes(node) = <<"skip", "skip">>
            /\ node.passed = "False"

\* ----------------------------------------------------------------- C16
\* the quality leaves written in the ledger, and the results of type quality
QualityLeaves(lines) ==
    {k \in 1..Len(lines) : lines[k].key = "type" /\ lines[k].val = <<"quality">>}
QualityResults(results) == {node \in ResultNodes(results) : node.type = "quality"}

\* C16: a quality leaf is never evaluated mechanically: each quality leaf of
\* the base case yields one result that is skipped, neither passed nor
\* failed, for which no verification script was run, and whose evidence
\* carries the pass_threshold and the criteria written in the leaf.
C16_QualityNeverRun ==
    Ran("verify_checklist") =>
        /\ Cardinality(QualityResults(out.checklist)) = Cardinality(QualityLeaves(doc))
        /\ \A node \in QualityResults(out.checklist) :
                /\ node.skipped
                /\ node.passed = "None"
                /\ node.calls = <<>>
                /\ node.evidence = <<"Quality check requires LLM judgment",
                                     QualityCheck.pass_threshold, QualityCheck.criteria>>

\* the same, for the quality leaves of a checklist only
C16_ChecklistQualityNeverRun ==
    parse_base_case(doc).format = "checklist" => C16_QualityNeverRun

\* a quality leaf of a checklist has been verified
C16_Witness ==
    /\ Ran("verify_checklist")
    /\ parse_base_case(doc).format = "checklist"
    /\ QualityResults(out.checklist) # {}

\* ----------------------------------------------------------------- C17
\* C17: for a checklist, verify_checklist reports passed = true exactly when
\* every root item passes or is skipped; a root item that is an OR group of
\* skipped children, a check of an unknown type, or an item with no check,
\* group or any_of is not skipped and not passed, and fails the checklist.
C17_OverallPassed ==
    Ran("verify_checklist") /\ parse_base_case(doc).format = "checklist" =>
        LET roots == out.checklist IN
        /\ out.passed \in {"True", "False"}
        /\ last.ok <=> Truthy(out.passed)
        /\ Truthy(out.passed) <=>
                \A k \in 1..Len(roots) : roots[k].skipped \/ roots[k].passed = "True"
        /\ \A k \in 1..Len(roots) :
                (\/ /\ roots[k].kind = "any_of"
                    /\ \A j \in 1..Len(roots[k].results) : roots[k].results[j].skipped
                 \/ roots[k].kind = "none"
                 \/ roots[k].kind = "check" /\ roots[k].evidence[1] = "Unknown check type")
                    => out.passed = "False"

\* a checklist of a passing item and a skipped item has been verified, and
\* has passed
C17_Witness ==
    /\ Ran("verify_checklist")
    /\ Len(out.checklist) = 2
    /\ out.checklist[1].passed = "True"
    /\ out.checklist[2].skipped
    /\ out.passed = "True"

\* a checklist whose root item is an OR group of skipped children has failed
C17_WitnessFail ==
    /\ Ran("verify_checklist")
    /\ \E k \in 1..Len(out.checklist) :
            /\ out.checklist[k].kind = "any_of"
            /\ Outcomes(out.checklist[k]) = <<"skip", "skip">>
    /\ out.passed = "False"

\* ----------------------------------------------------------------- C18
\* C18: every quality leaf of the base case, at any depth, is named in the
\* skipped list of the output; hence an output with passed = true for a base
\* case that holds a quality leaf has a skipped list that is not empty.
C18_SkippedListComplete ==
    Ran("verify_checklist") =>
        /\ \A node \in QualityResults(out.checklist) : node.item \in Range(out.skipped)
        /\ Truthy(out.passed) /\ QualityLeaves(doc) # {} => out.skipped # <<>>

\* the same, for the quality leaves that are root items or children of one
C18_ShallowSkippedListed ==
    Ran("verify_checklist") =>
        \A k \in 1..Len(out.checklist) :
            LET root == out.checklist[k] IN
            /\ root.type = "quality" => root.item \in Range(out.skipped)
            /\ \A j \in 1..Len(root.results) :
                    root.results[j].type = "quality" =>
                        root.results[j].item \in Range(out.skipped)

\* a checklist with a quality leaf two groups deep has been verified
C18_Witness ==
    /\ Ran("verify_checklist")
    /\ \E k \in 1..Len(out.checklist) :
            \E j \in 1..Len(out.checklist[k].results) :
                QualityResults(out.checklist[k].results[j].results) # {}

\* ----------------------------------------------------------------- C19
\* the output for the checklist whose only root item is the check
AsOneItem(check) ==
    verify_checklist(ChecklistLedger(<<Named(LeafItem(check), "base_case")>>))

LegacyAgrees(checks) ==
    Ran("verify_checklist") =>
        \A check \in checks :
            doc = LegacyLedger(check) =>
                /\ out.passed = AsOneItem(check).passed
                /\ out.skipped = AsOneItem(check).skipped

\* C19: for every leaf check (command, not_command, file, not_file on each
\* answer of the command or the path, and quality), verifying it as a legacy
\* single-check base case gives the same passed value and the same skipped
\* list as verifying the checklist whose only root item is that check.
C19_LegacyAsOneItem == LegacyAgrees(MechanicalChecks \cup {QualityCheck})

\* the same, for the checks that are not quality checks
C19_MechanicalLegacyAsOneItem == LegacyAgrees(MechanicalChecks)

\* a legacy quality base case has been verified
C19_Witness ==
    /\ Ran("verify_checklist")
    /\ doc = LegacyLedger(QualityCheck)

\* ----------------------------------------------------------------- C20
\* the IDs of the executable frontier of a ledger
Frontier(lines) == IdsOf(read_state(lines).executable_atoms)

\* C20: marking an atom X resolved never shrinks the frontier with respect to
\* the other atoms: every atom Y other than X that is executable before
\* update_atom(X, resolved) is executable after it.
C20_FrontierMonotone ==
    Succeeded("update_atom") /\ last.status = "resolved" =>
        \A y \in Frontier(pre) \ {last.atom_id} : y \in Frontier(doc)

\* an atom was marked resolved while another atom was executable, and an atom
\* that depends on it has entered the frontier
C20_Witness ==
    /\ Succeeded("update_atom") /\ last.status = "resolved"
    /\ last.atom_id \in Frontier(pre)
    /\ Frontier(pre) \ {last.atom_id} # {}
    /\ Frontier(doc) \ Frontier(pre) # {}

\* ----------------------------------------------------------------- C21
\* the IDs that count as satisfied dependencies in a ledger
SatisfiedIds(lines) ==
    {x \in IdsOf(parse_atoms(lines)) : Satisfied(lines, parse_atoms(lines), x)}

\* C21: once an atom is resolved or bound it never blocks a dependent again:
\* an ID that counts as a satisfied dependency before an operation counts as
\* one after it, whatever the operation.
C21_SatisfiedStays ==
    \A x \in SatisfiedIds(pre) : x \in SatisfiedIds(doc)

\* the same, for the atoms that are bound
C21_BoundStays ==
    \A x \in IdsOf(parse_atoms(pre)) : HasBinding(pre, x) => HasBinding(doc, x)

\* an atom that was resolved has been set back to pending, and an atom that
\* depends on it has left the frontier
C21_Witness ==
    /\ Succeeded("update_atom")
    /\ last.atom_id \in SatisfiedIds(pre) \ SatisfiedIds(doc)
    /\ Frontier(pre) \ (Frontier(doc) \cup {last.atom_id}) # {}

\* ----------------------------------------------------------------- C22
\* C22: update_atom(id, s) with a legal s succeeds exactly when id names an
\* atom of the ledger, and then every atom of that id has status s, whatever
\* its status was, and nothing else of any atom changes; with an absent id or
\* a status outside the legal set it fails and the ledger is unchanged.
C22_UpdateOutcome ==
    Ran("update_atom") =>
        LET before == parse_atoms(pre)
            after == parse_atoms(doc)
            legal == last.status \in {"pending", "in_progress", "resolved"}
            found == last.atom_id \in IdsOf(before)
        IN  /\ last.ok <=> (legal /\ found)
            /\ ~legal => Failed("update_atom", "invalid-status")
            /\ (legal /\ ~found) => Failed("update_atom", "atom-not-found")
            /\ ~last.ok => doc = pre
            /\ last.ok =>
                    after = [k \in 1..Len(before) |->
                                IF before[k].id = last.atom_id
                                THEN [before[k] EXCEPT !.status = last.status]
                                ELSE before[k]]

\* the status the atom named in the call had before it
StatusBefore == WithId(parse_atoms(pre), last.atom_id)[1].status

\* a resolved atom has been set back to pending
C22_Witness ==
    /\ Succeeded("update_atom")
    /\ StatusBefore = "resolved"
    /\ WithId(parse_atoms(doc), last.atom_id)[1].status = "pending"

\* ----------------------------------------------------------------- C23
\* what is wrong with a ledger, read off its lines
Unfenced(lines) == lines = <<>> \/ lines[1] # Fence \/ Cardinality(Fences(lines)) < 2
LacksSection(lines, name) == ~\E i \in 1..Len(lines) : StartsWith(lines[i], name)
LacksField(lines, name) ==
    ~\E i \in 1..Len(lines) : HasKey(lines[i], name) /\ lines[i].ind = 2
HasDuplicateIds(atoms) == Cardinality(IdsOf(atoms)) < Len(atoms)
Dangling(atoms) ==
    UNION {{<<atoms[k].id, dep>> : dep \in Range(atoms[k].depends_on) \ IdsOf(atoms)} :
            k \in 1..Len(atoms)}

\* the four grounds the claim names
NamedGrounds(lines) ==
    LET atoms == parse_atoms_basic(lines) IN
    \/ \E name \in {"objective", "control", "atoms"} : LacksSection(lines, name)
    \/ atoms = <<>>
    \/ HasDuplicateIds(atoms)
    \/ Cyclic(atoms)

\* the grounds of the code: the named ones for a ledger between two '---'
\* lines, a missing '---' line, and an objective without goal or base_case
CodeGrounds(lines) ==
    \/ Unfenced(lines)
    \/ NamedGrounds(lines)
    \/ \E name \in {"goal", "base_case"} : LacksField(lines, name)

\* C23 as stated: validate_state answers valid = false exactly when it
\* records an error, it records an error exactly for a missing required
\* section, zero atoms, a duplicate atom ID or a dependency cycle, and a
\* dependency on an atom that is not there gives a warning and no error.
C23_ErrorsExactlyNamed ==
    Ran("validate_state") =>
        /\ out.valid <=> out.errors = {}
        /\ out.errors # {} <=> NamedGrounds(doc)

\* C23 amended: the same, with two more grounds for an error: a missing or
\* unterminated '---' frontmatter, and an objective section that lacks goal
\* or base_case.
C23_ErrorsExactly ==
    Ran("validate_state") =>
        LET atoms == parse_atoms_basic(doc) IN
        /\ out.valid <=> out.errors = {}
        /\ last.ok <=> out.valid
        /\ out.errors # {} <=> CodeGrounds(doc)
        /\ ~Unfenced(doc) =>
            /\ <<"atoms", "none", "">> \in out.errors <=> atoms = <<>>
            /\ <<"atoms", "duplicate", "">> \in out.errors <=> HasDuplicateIds(atoms)
            /\ <<"atoms", "cycle", "">> \in out.errors <=> Cyclic(atoms)
            /\ \A name \in {"objective", "control", "atoms"} :
                    <<"section", name, "">> \in out.errors <=> LacksSection(doc, name)
            /\ \A d \in Dangling(atoms) :
                    /\ <<"undefined", d[1], d[2]>> \in out.warnings
                    /\ \A e \in out.errors : e[1] # "undefined"
            /\ (Dangling(atoms) # {} /\ ~CodeGrounds(doc)) => out.valid

\* a ledger whose only flaw is a dependency on an atom that is not there has
\* been found valid, with a warning
C23_Witness ==
    /\ Ran("validate_state")
    /\ Dangling(parse_atoms_basic(doc)) # {}
    /\ out.valid /\ out.warnings # {}

\* a ledger with the same ID twice has been found invalid
C23_WitnessDuplicate ==
    /\ Ran("validate_state")
    /\ out.errors = {<<"atoms", "duplicate", "">>}
    /\ ~out.valid

\* ----------------------------------------------------------------- C24
\* verify_checklist has been run on the checklist whose only item is the check
LeafVerified(check) ==
    /\ Ran("verify_checklist")
    /\ doc = ChecklistLedger(<<Named(LeafItem(check), "i1")>>)

\* the command ran to its end: it was started and did not outlive the limit
Completes(command) == ~Hangs(command) /\ ~FailsToLaunch(command)

\* C24 as stated: whatever the collaborator answers (any exit code, a timeout
\* with exit code -1, a failure to launch with exit code -1, any number of
\* matches), command passes iff the exit code is 0 and not_command iff it is
\* not 0, file passes iff there is a match and not_file iff there is none:
\* of a type and its negation exactly one passes.
C24_ExactComplements ==
    /\ \A v \in CommandValues :
        /\ LeafVerified(Check("command", v)) =>
                (Truthy(out.passed) <=> ExitCode(v) = 0)
        /\ LeafVerified(Check("not_command", v)) =>
                (Truthy(out.passed) <=> ExitCode(v) # 0)
    /\ \A v \in PathValues :
        /\ LeafVerified(Check("file", v)) =>
                (Truthy(out.passed) <=> MatchCount(v) > 0)
        /\ LeafVerified(Check("not_file", v)) =>
                (Truthy(out.passed) <=> MatchCount(v) = 0)

\* C24 amended: for a command that runs to its end command passes iff the
\* exit code is 0 and not_command iff it is not 0; on a timeout or a failure
\* to launch both fail; file passes iff there is a match and not_file iff
\* there is none.
C24_ComplementsWhenRun ==
    /\ \A v \in CommandValues :
        /\ LeafVerified(Check("command", v)) =>
                (Truthy(out.passed) <=> Completes(v) /\ ExitCode(v) = 0)
        /\ LeafVerified(Check("not_command", v)) =>
                (Truthy(out.passed) <=> Completes(v) /\ ExitCode(v) # 0)
        /\ LeafVerified(Check("command", v)) \/ LeafVerified(Check("not_command", v)) =>
                out.passed \in {"True", "False"}
    /\ \A v \in PathValues :
        /\ LeafVerified(Check("file", v)) =>
                (Truthy(out.passed) <=> MatchCount(v) > 0)
        /\ LeafVerified(Check("not_file", v)) =>
                (Truthy(out.passed) <=> MatchCount(v) = 0)

\* a not_command leaf whose command could not be launched has been verified,
\* and has failed
C24_Witness ==
    /\ LeafVerified(Check("not_command", "unlaunchable"))
    /\ out.passed = "False"
    /\ out.checklist[1].evidence = <<"failed to execute">>

\* ----------------------------------------------------------------- C25
\* the command leaves written in the ledger, and the results of the items for
\* which verify_command.py was run
CommandLeaves(lines) ==
    {k \in 1..Len(lines) :
        lines[k].key = "type" /\ lines[k].val \in {<<"command">>, <<"not_command">>}}
CommandResults(results) ==
    {node \in ResultNodes(results) :
        \E c \in Range(node.calls) : node.kind = "check" /\ c[1] = "verify_command.py"}
TimeoutEvidence == {<<"timed out">>, <<"Verification timed out">>}

\* C25: a command or not_command leaf whose command outlives the time limit
\* is failed with timeout evidence, and in one run of verify_checklist the
\* command of each such leaf is started once and no more.
C25_TimeoutFailsOnce ==
    Ran("verify_checklist") =>
        /\ Cardinality(CommandResults(out.checklist)) = Cardinality(CommandLeaves(doc))
        /\ \A node \in CommandResults(out.checklist) :
                /\ Len(node.calls) = 1
                /\ Hangs(node.calls[1][2][1]) =>
                        /\ node.passed = "False"
                        /\ ~node.skipped
                        /\ node.evidence \in TimeoutEvidence

\* a not_command leaf whose command hangs has been verified
C25_Witness ==
    /\ LeafVerified(Check("not_command", "hang"))
    /\ out.passed = "False"
    /\ out.checklist[1].evidence \in TimeoutEvidence
    /\ out.checklist[1].calls = <<<<"verify_command.py", <<"hang", "--expect-fail">>>>>>

\* ----------------------------------------------------------------- C26
\* the field of the objective is in the ledger and has a value: a text of its
\* own that is not null, or, for base_case, the lines of a check below it
FieldSet(lines, name) ==
    \E i \in 1..Len(lines) :
        /\ lines[i].ind = 2 /\ HasKey(lines[i], name)
        /\ IF name = "base_case"
           THEN i < Len(lines) /\ lines[i + 1].ind = 4
           ELSE Scalar(lines[i]) \notin {"", "null"}

GateFields == {"goal", "base_case", "background_intent", "deliverables",
               "definition_of_done"}

GatePreconditions(lines) ==
    /\ \A name \in GateFields : FieldSet(lines, name)
    /\ parse_atoms(lines) # <<>>
    /\ \E i \in 1..Len(lines) :
            /\ IsControlLine(lines[i], "status")
            /\ Scalar(lines[i]) \in {"pending", "stopped", "running"}

\* C26: check_gate answers ready = true exactly when goal, base_case,
\* background_intent, deliverables and definition_of_done are all there and
\* not empty, there is an atom, and control.status is pending, stopped or
\* running; ready is the same as an empty missing list, and a ledger without
\* definition_of_done is not ready and has the field in its missing list.
C26_GateExact ==
    Ran("check_gate") =>
        /\ out.ready <=> GatePreconditions(doc)
        /\ out.ready <=> out.missing = {}
        /\ \A name \in GateFields :
                ~FieldSet(doc, name) =>
                    \E m \in out.missing : m[1] = "objective." \o name

\* what does hold: ready is the same as an empty missing list, a field that
\* is not in the ledger at all is in the missing list, and so are a ledger
\* without atoms and a status that is not pending, stopped or running
C26_GateAbsent ==
    Ran("check_gate") =>
        /\ out.ready <=> out.missing = {}
        /\ last.ok <=> out.ready
        /\ \A name \in GateFields :
                (~\E i \in 1..Len(doc) : HasKey(doc[i], name)) =>
                    <<"objective." \o name, "absent">> \in out.missing
        /\ parse_atoms(doc) = <<>> => <<"atoms", "none">> \in out.missing
        /\ out.ready => out.status \in {"pending", "stopped", "running"}

\* check_gate has been run on a ledger whose goal is written as ""
C26_Witness ==
    /\ Ran("check_gate")
    /\ \E i \in 1..Len(doc) :
            HasKey(doc[i], "goal") /\ doc[i].form = "scalar" /\ Scalar(doc[i]) = ""
    /\ out.ready

\* ----------------------------------------------------------------- C27
\* both invocations read the file before either wrote it, both reported
\* success, and first wrote before second
Unserialized(first, second) ==
    /\ held[first].pc = "done" /\ held[second].pc = "done"
    /\ held[first].call.ok /\ held[second].call.ok
    /\ held[first].read_at = 0 /\ held[second].read_at = 0
    /\ held[first].wrote_at < held[second].wrote_at

\* C27: no lock, no version check: when two mutating invocations have both
\* read the ledger before either wrote it and both reported success, the
\* final ledger is the one the later writer made from what it read; the
\* atom the earlier one added is not in it, and of the trail entries the two
\* appended it holds only the later writer's.
C27_LaterWriterWins ==
    \A first, second \in Writers :
        Unserialized(first, second) =>
            LET mine == held[first].call
                theirs == held[second].call
                content == held[second].content
            IN  /\ held[first].content = content
                /\ doc = main_of(theirs, content, held[second].wrote_at).new
                /\ (mine.op = "add_atom" /\ theirs.atom_id # mine.atom_id) =>
                        mine.atom_id \notin parse_existing_ids(doc)
                /\ mine.op = "switch_or_branch" =>
                        Len(Trail(doc)) = Len(Trail(content))
                            + (IF theirs.op = "switch_or_branch" THEN 1 ELSE 0)

\* an atom was added and reported, then a branch switch that had read the
\* ledger before wrote it back: the atom is gone
C27_Witness ==
    /\ Unserialized("w1", "w2")
    /\ held["w1"].call.op = "add_atom"
    /\ held["w2"].call.op = "switch_or_branch"
    /\ held["w1"].call.atom_id \in parse_existing_ids(pre)
    /\ held["w1"].call.atom_id \notin parse_existing_ids(doc)
    /\ Len(Trail(doc)) = Len(Trail(pre)) + 1

\* a trail entry was appended and reported, then lost to an added atom
C27_WitnessTrail ==
    /\ Unserialized("w1", "w2")
    /\ held["w1"].call.op = "switch_or_branch"
    /\ held["w2"].call.op = "add_atom"
    /\ Len(Trail(doc)) + 1 = Len(Trail(pre))

\* ----------------------------------------------------------------- C28
\* the lines of the objective section, the base case among them
ObjectiveOf(lines) ==
    LET span == InOrder(Section(lines, "objective"))
    IN [k \in 1..Len(span) |-> lines[span[k]]]

ReadOnlyTools == {"verify_checklist", "read_state", "validate_state", "check_gate"}

\* C28: no operation changes the base-case checklist tree: after add_atom,
\* decompose_atom, update_atom, add_binding, switch_or_branch and set_status
\* the tree (and every line of the objective) is what it was before the
\* call, and verify_checklist, read_state, validate_state and check_gate
\* leave the whole ledger as it was.
C28_ChecklistUntouched ==
    (exists /\ last.op # "none") =>
        /\ parse_base_case(doc) = parse_base_case(pre)
        /\ ObjectiveOf(doc) = ObjectiveOf(pre)
        /\ last.op \in ReadOnlyTools => doc = pre

\* a tool wrote the ledger, whose checklist has groups in it
C28_Witness ==
    /\ last.ok
    /\ last.op \in {"add_atom", "decompose_atom", "update_atom", "add_binding",
                     "switch_or_branch", "set_status"}
    /\ doc # pre
    /\ parse_base_case(pre).format = "checklist"
    /\ \E k \in 1..Len(parse_base_case(pre).checklist) :
            parse_base_case(pre).checklist[k].has_any_of

\* verify_checklist ran the checklist and reported
C28_WitnessRead ==
    /\ Ran("verify_checklist")
    /\ Len(out.checklist) = 3

\* ----------------------------------------------------------------- C29
\* C29: add_binding succeeds whatever the status of the atom it binds
\* (pending, in_progress or resolved) and changes no atom's status: the atoms
\* of the ledger are after the call what they were before it, and every atom
\* of the executable frontier, the bound one included, is still in it.
C29_BindingKeepsStatus ==
    Ran("add_binding") =>
        /\ last.ok
        /\ parse_atoms(doc) = parse_atoms(pre)
        /\ \A y \in Frontier(pre) : y \in Frontier(doc)

\* add_binding has bound an atom of the ledger that had the status
Bound(status) ==
    /\ Succeeded("add_binding")
    /\ last.atom_id \in IdsOf(parse_atoms(pre))
    /\ StatusBefore = status

\* a pending atom of the frontier was bound: it is bound now, still pending
\* and still in the frontier
C29_Witness ==
    /\ Bound("pending")
    /\ last.atom_id \in Frontier(pre)
    /\ ~HasBinding(pre, last.atom_id)
    /\ last.atom_id \in BindingKeys(read_state(doc).bindings)
    /\ last.atom_id \in Frontier(doc)

\* an atom in progress was bound, and a resolved one
C29_WitnessInProgress == Bound("in_progress")
C29_WitnessResolved == Bound("resolved")

\* ----------------------------------------------------------------- C30
\* C30: switch_or_branch changes only the selected field of the target group
\* and the trail: every group keeps its choices and its failed list (the
\* selection that was replaced is not added to it), every other group keeps
\* its selected atom, a group that gets its record by the call starts with
\* choices and failed empty, and the atoms and the bindings are what they
\* were.
C30_SwitchFrame ==
    Ran("switch_or_branch") =>
        /\ \A g \in GroupNames :
            IF GroupRecords(pre, g) # {}
            THEN /\ GroupRecords(doc, g) # {}
                 /\ GroupField(doc, g, "choices") = GroupField(pre, g, "choices")
                 /\ GroupField(doc, g, "failed") = GroupField(pre, g, "failed")
                 /\ g # last.group_name =>
                        GroupField(doc, g, "selected") = GroupField(pre, g, "selected")
            ELSE GroupRecords(doc, g) # {} =>
                    /\ g = last.group_name
                    /\ GroupField(doc, g, "choices") = <<>>
                    /\ GroupField(doc, g, "failed") = <<>>
        /\ parse_atoms(doc) = parse_atoms(pre)
        /\ parse_bindings(doc) = parse_bindings(pre)
        /\ ObjectiveOf(doc) = ObjectiveOf(pre)

\* the selection of g1 was switched away from A1 while g2 had its own: A1 is
\* not in g1's failed list, and the trail has the switch
C30_Witness ==
    /\ Succeeded("switch_or_branch")
    /\ last.group_name = "g1" /\ last.new_selection = "A2"
    /\ GroupRecords(pre, "g2") # {}
    /\ GroupField(pre, "g1", "selected") = <<"A1">>
    /\ GroupField(doc, "g1", "selected") = <<"A2">>
    /\ "A1" \notin Range(GroupField(doc, "g1", "failed"))
    /\ Len(Trail(doc)) = Len(Trail(pre)) + 1

\* ----------------------------------------------------------------- C31
\* the decomposed_from of the k-th atom of the atoms section, None without one
DecomposedFrom(lines, k) ==
    LET span == Section(lines, "atoms")
        ids == InOrder({p \in span : IsIdLine(lines[p])})
        later == {q \in span : q > ids[k] /\ IsIdLine(lines[q])}
        tags == {i \in span : /\ i > ids[k] /\ (later = {} \/ i < Min(later))
                              /\ HasKey(lines[i], "decomposed_from")}
    IN IF tags = {} THEN None ELSE Scalar(lines[Max(tags)])

\* C31: after a successful decompose_atom the inserted atoms are the given
\* children in the given order, each pending and tagged decomposed_from =
\* parent_id, and the decomposition records are those of before followed by
\* exactly one new record, of parent parent_id and of the given children in
\* the given order.
C31_DecomposeRecorded ==
    Succeeded("decompose_atom") =>
        LET before == Len(parse_atoms(pre)) IN
        /\ [k \in 1..Len(InsertedAtoms) |-> InsertedAtoms[k].id] = last.children
        /\ \A k \in 1..Len(InsertedAtoms) :
            /\ InsertedAtoms[k].status = "pending"
            /\ DecomposedFrom(doc, before + k) = last.atom_id
        /\ Len(Decompositions(doc)) = Len(Decompositions(pre)) + 1
        /\ IsPrefix(Decompositions(pre), Decompositions(doc))
        /\ <<"parent", <<last.atom_id>>>> \in Decompositions(doc)[Len(Decompositions(doc))]
        /\ <<"children", last.children>> \in Decompositions(doc)[Len(Decompositions(doc))]

\* two children were inserted by a second decomposition
C31_Witness ==
    /\ Succeeded("decompose_atom")
    /\ Len(last.children) = 2
    /\ Len(Decompositions(pre)) = 1
    /\ DecomposedFrom(doc, Len(parse_atoms(doc))) = last.atom_id

\* ----------------------------------------------------------------- C32
\* the lines of a section, in file order
SectionLines(lines, name) ==
    LET span == InOrder(Section(lines, name))
    IN [k \in 1..Len(span) |-> lines[span[k]]]

\* C32: a successful add_atom adds exactly one atom, after all the atoms the
\* ledger had, pending, with the given depends_on and or_group, and changes
\* nothing else: the atoms of before, the bindings, the OR-group records (the
\* choices of the named or_group among them), the trail, the decomposition
\* records, the control state and the objective are what they were.
C32_AddAtomFrame ==
    Succeeded("add_atom") =>
        /\ parse_atoms(doc) =
                Append(parse_atoms(pre),
                       [id |-> last.atom_id, depends_on |-> last.depends_on,
                        description |-> last.description, status |-> "pending",
                        or_group |-> last.or_group])
        /\ parse_bindings(doc) = parse_bindings(pre)
        /\ \A name \in {"objective", "control", "decompositions", "or_groups",
                          "trail", "bindings"} :
                SectionLines(doc, name) = SectionLines(pre, name)

\* an atom was added to OR-group g1, whose record lists two other choices
C32_Witness ==
    /\ Succeeded("add_atom")
    /\ last.or_group = "g1" /\ last.depends_on # <<>>
    /\ GroupRecords(pre, "g1") # {}
    /\ last.atom_id \notin Range(GroupField(doc, "g1", "choices"))
    /\ Len(parse_atoms(doc)) = 3

\* ----------------------------------------------------------------- C33
\* the depends_on of the atom of that id
DependsOnOf(atoms, id) ==
    UNION {Range(atoms[k].depends_on) : k \in {j \in 1..Len(atoms) : atoms[j].id = id}}

\* the three atoms depend on one another in a ring: A1 on A2, A2 on A3, A3 on A1
Ring(atoms) ==
    /\ Len(atoms) = 3
    /\ atoms[1].depends_on = <<"A2">>
    /\ atoms[2].depends_on = <<"A3">>
    /\ atoms[3].depends_on = <<"A1">>

\* C33: a non-empty path p returned by detect_cycle is a cycle of the graph:
\* its first and last elements are the same ID, p[i+1] is in the depends_on
\* of p[i] for every consecutive pair, and no ID but the closing one occurs
\* twice; for A1 on A2, A2 on A3, A3 on A1 it is [A1, A2, A3, A1].
C33_CycleIsReal ==
    (Ran("validate_state") /\ out.cycle # <<>>) =>
        LET p == out.cycle
            atoms == parse_atoms_basic(doc)
        IN  /\ Len(p) >= 2
            /\ p[1] = p[Len(p)]
            /\ \A i \in 1..(Len(p) - 1) : p[i + 1] \in DependsOnOf(atoms, p[i])
            /\ \A i, j \in 1..(Len(p) - 1) : p[i] = p[j] => i = j
            /\ Ring(atoms) => p = <<"A1", "A2", "A3", "A1">>

\* the cycle of the ring was returned
C33_Witness ==
    /\ Ran("validate_state")
    /\ Ring(parse_atoms_basic(doc))
    /\ out.cycle = <<"A1", "A2", "A3", "A1">>

\* a cycle that the search entered from an atom outside it
C33_WitnessTail ==
    /\ Ran("validate_state")
    /\ Len(out.cycle) = 3
    /\ out.cycle[1] # "A1"
    /\ parse_atoms_basic(doc)[1].depends_on # <<>>

\* ----------------------------------------------------------------- C34
\* the results of the leaves below a result, at any depth
RECURSIVE LeafResults(_)
LeafResults(node) ==
    IF node.kind \in {"group", "any_of"}
    THEN UNION {LeafResults(node.results[k]) : k \in 1..Len(node.results)}
    ELSE {node}

\* there are leaves below the result, and each of them is a quality leaf
JudgmentOnly(node) ==
    /\ LeafResults(node) # {}
    /\ \A leaf \in LeafResults(node) : leaf.type = "quality"

\* C34: judgment-required leaves alone never produce an OR pass: an any_of
\* group under which every leaf, at any depth, is a quality leaf does not
\* pass, also when the quality leaves sit inside a nested AND group.
C34_NoJudgmentOrPass ==
    Ran("verify_checklist") =>
        \A node \in ResultNodes(out.checklist) :
            (node.kind = "any_of" /\ JudgmentOnly(node)) => ~Truthy(node.passed)

\* the same, for the any_of groups whose children are all leaves
C34_NoJudgmentOrPassFlat ==
    Ran("verify_checklist") =>
        \A node \in ResultNodes(out.checklist) :
            ( /\ node.kind = "any_of" /\ JudgmentOnly(node)
              /\ \A k \in 1..Len(node.results) : node.results[k].kind = "check" )
            => ~Truthy(node.passed)

\* ----------------------------------------------------------------- C35
\* the positions of the trail entries of the group, and the selection of the
\* latest of them
TrailOf(lines, g) ==
    {k \in 1..Len(Trail(lines)) : <<"or_group", <<g>>>> \in Trail(lines)[k]}
LatestSelection(lines, g) ==
    LET entry == Trail(lines)[Max(TrailOf(lines, g))]
    IN CHOOSE v \in {t[2] : t \in {u \in entry : u[1] = "selected"}} : TRUE

\* C35: the OR-group record is a faithful cache of the trail: every group
\* named by a trail entry has a record, and its selected is the selection of
\* the latest trail entry of the group.
C35_RecordCachesTrail ==
    \A g \in GroupNames :
        TrailOf(doc, g) # {} =>
            /\ GroupRecords(doc, g) # {}
            /\ GroupField(doc, g, "selected") = LatestSelection(doc, g)

\* the same, for the groups that have a record
C35_RecordFollowsTrail ==
    \A g \in GroupNames :
        (TrailOf(doc, g) # {} /\ GroupRecords(doc, g) # {}) =>
            GroupField(doc, g, "selected") = LatestSelection(doc, g)

\* ----------------------------------------------------------------- C36
\* the names of the results, depth first, each before what is below it
RECURSIVE PreOrder(_)
PreOrder(results) ==
    Flatten([k \in 1..Len(results) |->
                <<results[k].item>> \o PreOrder(results[k].results)])

\* the names of the items of the ledger, in the order they are written in
ItemsWritten(lines) ==
    LET at == InOrder({i \in 1..Len(lines) : IsItemLine(lines[i])})
    IN [k \in 1..Len(at) |-> Scalar(lines[at[k]])]

\* the script runs the checks of the ledger ask for, in the order they are
\* written in
RunsWritten(lines) ==
    LET at == InOrder({i \in 1..Len(lines) : HasKey(lines[i], "type") /\ lines[i].ind > 2})
        CheckAt(i) ==
            [NoCheck EXCEPT
                !.type = Scalar(lines[i]),
                !.value = IF i < Len(lines) /\ HasKey(lines[i + 1], "value")
                          THEN Scalar(lines[i + 1]) ELSE ""]
    IN Flatten([k \in 1..Len(at) |-> ScriptCall(CheckAt(at[k]))])

\* the script runs of a verification pass, in the order they were made
RunsMade == Flatten([k \in 1..Len(out.checklist) |-> out.checklist[k].calls])

\* C36: a verification pass runs to completion without short-circuit: it ends
\* with a result for every item of the tree, in depth-first pre-order,
\* which is the order of the document, and the script of every mechanical
\* leaf has been run exactly once, in that order, whatever the earlier
\* siblings of the leaf gave.
C36_NoShortCircuit ==
    Ran("verify_checklist") /\ parse_base_case(doc).format # "none" =>
        /\ RunsMade = RunsWritten(doc)
        /\ parse_base_case(doc).format = "checklist" =>
                /\ PreOrder(out.checklist) = ItemsWritten(doc)
                /\ \A node \in ResultNodes(out.checklist) :
                        node.kind = "check" => Len(node.calls) <= 1

\* an AND group whose first child fails and an OR group whose first child
\* passes have both had their second child run
C36_Witness ==
    /\ Ran("verify_checklist")
    /\ \E node \in ResultNodes(out.checklist) :
            /\ node.kind = "group"
            /\ Outcomes(node) = <<"fail", "pass">>
            /\ Len(node.calls) = 2

C36_WitnessOr ==
    /\ Ran("verify_checklist")
    /\ \E node \in ResultNodes(out.checklist) :
            /\ node.kind = "any_of"
            /\ Outcomes(node) = <<"pass", "fail">>
            /\ Len(node.calls) = 2

\* ----------------------------------------------------------------- C37
\* the graph of the ledger has no cycle and no dependency without its atom
SoundGraph(lines) ==
    LET atoms == parse_atoms_basic(lines)
    IN detect_cycle(atoms) = <<>> /\ Dangling(atoms) = {}

GraphTools == {"add_atom", "decompose_atom", "update_atom", "add_binding",
               "switch_or_branch"}

\* C37: acyclicity and dependency closure are preserved: when add_atom,
\* decompose_atom, update_atom, add_binding or switch_or_branch succeeds on
\* a ledger whose graph is acyclic and has no dangling dependency,
\* detect_cycle still returns no cycle and every depends_on entry still names
\* an atom (and so after any sequence of such calls).
C37_GraphStaysSound ==
    (exists /\ last.op \in GraphTools /\ last.ok /\ SoundGraph(pre)) => SoundGraph(doc)

\* an atom with a dependency was decomposed in a sound ledger that an
\* earlier call had already changed: its child has the dependency
C37_Witness ==
    /\ Succeeded("decompose_atom")
    /\ SoundGraph(pre) /\ SoundGraph(doc)
    /\ clock = 2
    /\ ParentDependsOn # <<>>
    /\ InsertedAtoms # <<>>

\* an atom with a dependency was added to a sound ledger
C37_WitnessAdd ==
    /\ Succeeded("add_atom")
    /\ SoundGraph(pre) /\ SoundGraph(doc)
    /\ last.depends_on # <<>>

\* ----------------------------------------------------------------- C38
BindableIds == {"A1", "A2", "A3"}

\* the IDs read_state finds a binding for
BoundIds(lines) == BindingKeys(read_state(lines).bindings) \cap BindableIds

\* the frontier computation takes x for a satisfied dependency: every
\* pending atom whose other dependencies are satisfied is in the frontier
CountsAsSatisfied(lines, x) ==
    LET atoms == parse_atoms(lines) IN
    \A k \in 1..Len(atoms) :
        ( /\ atoms[k].status = "pending"
          /\ \A dep \in Range(atoms[k].depends_on) \ {x} : Satisfied(lines, atoms, dep) )
        => atoms[k].id \in Frontier(lines)

\* C38: bindings are never removed: an ID that has a binding before an
\* operation has one after it, whatever the operation, and counts as a
\* satisfied dependency in the frontier computed then, also when the status
\* of its atom is set back to pending and when it names no atom.
C38_BindingsStay ==
    (exists /\ last.op # "none") =>
        \A x \in BoundIds(pre) :
            /\ x \in BoundIds(doc)
            /\ HasBinding(doc, x)
            /\ CountsAsSatisfied(doc, x)

\* the bound atom A1 was set back to pending: it is still bound, and A2,
\* which depends on it, is still in the frontier
C38_Witness ==
    /\ Succeeded("update_atom")
    /\ last.atom_id = "A1" /\ last.status = "pending"
    /\ StatusBefore = "resolved"
    /\ "A1" \in BoundIds(pre) /\ "A1" \in BoundIds(doc)
    /\ "A2" \in Frontier(doc)

\* a binding for an ID that names no atom has outlived a second binding
C38_WitnessNoAtom ==
    /\ Succeeded("add_binding")
    /\ last.atom_id # "A3"
    /\ "A3" \in BoundIds(pre) /\ "A3" \in BoundIds(doc)
    /\ "A3" \notin IdsOf(parse_atoms(doc))

\* ----------------------------------------------------------------- C39
\* every dependency of the parent was satisfied when it was decomposed
ParentReady ==
    \A dep \in Range(ParentDependsOn) : Satisfied(pre, parse_atoms(pre), dep)

\* C39: decompose_atom does not change the frontier membership of any atom
\* the ledger had, and each new child is in the frontier right after the
\* decomposition exactly when all the dependencies of the parent are
\* satisfied; a pending parent with satisfied dependencies stays in the
\* frontier, together with its children.
C39_DecomposeFrontier ==
    Succeeded("decompose_atom") =>
        /\ \A y \in IdsOf(parse_atoms(pre)) : y \in Frontier(pre) <=> y \in Frontier(doc)
        /\ \A k \in 1..Len(InsertedAtoms) :
                InsertedAtoms[k].id \in Frontier(doc) <=> ParentReady
        /\ last.atom_id \in Frontier(pre) =>
                {last.atom_id} \cup Range(last.children) \subseteq Frontier(doc)

\* a pending parent whose dependency is satisfied is in the frontier with
\* its two children
C39_Witness ==
    /\ Succeeded("decompose_atom")
    /\ ParentDependsOn # <<>>
    /\ last.atom_id \in Frontier(pre)
    /\ Len(last.children) = 2
    /\ {last.atom_id} \cup Range(last.children) \subseteq Frontier(doc)

\* the children of a parent that waits for a dependency wait as well
C39_WitnessBlocked ==
    /\ Succeeded("decompose_atom")
    /\ ~ParentReady
    /\ Range(last.children) \cap Frontier(doc) = {}

====
